---- MODULE Spec2Model ----
(***************************************************************************)
(* Data normalization and aggregation pipeline of tw-eval-leaderboard.     *)
(*                                                                         *)
(* The transformation functions of src/src/pages/Home.tsx (lines 505-832)  *)
(* are pure; each is an operator here, computed the way the TypeScript     *)
(* computes it, and each has a specification that draws its inputs from a  *)
(* bounded set and applies it.  JavaScript strings are TLA+ strings, read  *)
(* with Len, SubSeq and \o.                                                *)
(***************************************************************************)
EXTENDS Integers, Sequences, FiniteSets, TLC

VARIABLES
    key,          \* normalizeDatasetKey: the argument
    normalized,   \* normalizeDatasetKey(key)
    renormalized, \* normalizeDatasetKey(normalized)
    npc,          \* "start" | "once" | "twice"
    filename,     \* extractCategory: the argument
    category,     \* extractCategory(filename)
    epc,          \* "start" | "done"
    testName,     \* categorizeTest: the argument
    subject,      \* categorizeTest(testName)
    cpc,          \* "start" | "done"
    rawData,      \* flattenDatasetResults: the argument, a JSON value
    flat,         \* how the call ended: [threw, value]
    pc,           \* "start" | "done"
    toGroup,      \* groupByCategory: the argument, a list of results
    grouped,      \* groupByCategory(toGroup): the buckets, in insertion order
    gpc,          \* "start" | "done"
    sources,      \* the data sources handed to the pivot and ranking views
    pivot,        \* how buildPivotTable(sources) ended: [threw, value]
    ppc,          \* "start" | "done"
    benchmarkData,\* how the ranking table's aggregation ended: [threw, value]
    sortBy,       \* the ranking table's sort selection
    searchQuery,  \* the ranking table's search box
    sortedModels, \* how rendering ended: [threw, value], the value the rows
                  \* shown for each benchmark
    rpc,          \* "start" | "done"
    run,          \* what the pipeline run in progress has returned so far
    finished,     \* what the finished pipeline runs returned, oldest first
    step,         \* the pipeline's next call: "flatten" | "group" | "pivot" | "rank"
    config,       \* Home: config.official, the benchmarks to load
    loading,      \* Home: the loading flag
    selectedSourceIds, \* Home: the ids selected for comparison
    loads,        \* the calls of loadAllLatestResults in flight: for each, what
                  \* has become of each benchmark's promise
    started,      \* how many times loadAllLatestResults was called
    queue,        \* handleFilesUpload: the files not yet parsed, by name
    processed,    \* handleFilesUpload: the files done, with what became of them
    effects,      \* whether the auto-select effect is yet to run for sources
    clicks,       \* how many times the user changed the selection
    pivotData,    \* Home: the pivotData memo, [threw, value]
    selectedSources, \* Home: the selectedSources memo
    categoryStats,\* CategoryDashboard: how the categoryStats memo ended:
                  \* [threw, value]
    dpc           \* "start" | "done"

normVars == <<key, normalized, renormalized, npc>>
extrVars == <<filename, category, epc>>
catVars == <<testName, subject, cpc>>
flatVars == <<rawData, flat, pc>>
groupVars == <<toGroup, grouped, gpc>>
pivotVars == <<pivot, ppc>>
rankVars == <<benchmarkData, sortBy, searchQuery, sortedModels, rpc>>
aggVars == <<groupVars, sources, pivotVars, rankVars>>
pipeVars == <<run, finished, step>>
sessVars ==
    <<config, loading, selectedSourceIds, loads, started, queue, processed,
      effects, clicks, pivotData, selectedSources>>
dashVars == <<categoryStats, dpc>>
appVars == <<pipeVars, sessVars, dashVars>>
vars == <<normVars, extrVars, catVars, flatVars, aggVars, appVars>>

\* the variables of a function that a specification does not exercise
NormalizeIdle ==
    key = "" /\ normalized = "" /\ renormalized = "" /\ npc = "idle"
ExtractIdle == filename = "" /\ category = "" /\ epc = "idle"
CategorizeIdle == testName = "" /\ subject = "" /\ cpc = "idle"
FlattenIdle == rawData = "" /\ flat = "" /\ pc = "idle"
GroupIdle == toGroup = <<>> /\ grouped = <<>> /\ gpc = "idle"
PivotIdle == pivot = "" /\ ppc = "idle"
RankIdle ==
    /\ benchmarkData = "" /\ sortBy = "" /\ searchQuery = ""
    /\ sortedModels = "" /\ rpc = "idle"
AggregateIdle == GroupIdle /\ sources = <<>> /\ PivotIdle /\ RankIdle
PipelineIdle == run = "" /\ finished = <<>> /\ step = "idle"
SessionIdle ==
    /\ config = <<>> /\ loading = FALSE /\ selectedSourceIds = <<>>
    /\ loads = <<>> /\ started = 0 /\ queue = <<>> /\ processed = <<>>
    /\ effects = FALSE /\ clicks = 0 /\ pivotData = "" /\ selectedSources = <<>>
DashboardIdle == categoryStats = "" /\ dpc = "idle"
AppIdle == PipelineIdle /\ SessionIdle /\ DashboardIdle

----------------------------------------------------------------------------
(* Bounds of the checked inputs. *)

\* longest dataset key, in characters
MaxKeyLen == 5
\* most fragments a filename is put together from
MaxFileParts == 4

\* most fragments a test name is put together from
MaxWords == 2
\* most dataset keys of a document's dataset_results
MaxDatasets == 2
\* most results entries of a document, over all its datasets
MaxEntries == 3

\* the characters dataset keys are made of: a letter, the two delimiters'
\* characters
KeyAlphabet == {"a", "b", "/", "_"}

\* the pieces filenames are made of: the suffixes of extractCategory's two
\* patterns, near misses of them, a path separator and a stem
FileFragments ==
    {"a", "/", "_test", ".json", ".jsonl", ".csv", ".parquet", ".txt", "_test.json"}

RECURSIVE StringsOver(_, _)
\* every concatenation of at most n elements of pieces
StringsOver(pieces, n) ==
    IF n = 0 THEN {""}
    ELSE LET shorter == StringsOver(pieces, n - 1)
         IN  shorter \cup {s \o p : s \in shorter, p \in pieces}

----------------------------------------------------------------------------
(* JavaScript string primitives. *)

StartsWithAt(s, i, t) ==
    /\ i + Len(t) - 1 <= Len(s)
    /\ SubSeq(s, i, i + Len(t) - 1) = t

EndsWith(s, t) ==
    /\ Len(t) <= Len(s)
    /\ SubSeq(s, Len(s) - Len(t) + 1, Len(s)) = t

\* String.prototype.includes
Includes(s, t) == \E i \in 1..(Len(s) - Len(t) + 1) : StartsWithAt(s, i, t)

\* the first index at which sep occurs in s, 0 when it does not
IndexOf(s, sep) ==
    IF Includes(s, sep)
    THEN CHOOSE i \in 1..Len(s) :
            /\ StartsWithAt(s, i, sep)
            /\ \A j \in 1..(i - 1) : ~StartsWithAt(s, j, sep)
    ELSE 0

RECURSIVE SplitPop(_, _)
\* s.split(sep).pop(): split scans left to right for non-overlapping
\* occurrences of sep; the last piece is what follows the last one found
SplitPop(s, sep) ==
    LET i == IndexOf(s, sep)
    IN  IF i = 0 THEN s
        ELSE SplitPop(SubSeq(s, i + Len(sep), Len(s)), sep)

\* a || b on strings: the empty string is the only falsy string
OrElse(a, b) == IF a = "" THEN b ELSE a

RECURSIVE StripTrailingSlashes(_)
\* s.replace(/\/+$/, '')
StripTrailingSlashes(s) ==
    IF EndsWith(s, "/") THEN StripTrailingSlashes(SubSeq(s, 1, Len(s) - 1))
    ELSE s

\* s.replace(/\/$/, ''): at most one slash (a variant of the above)
StripOneTrailingSlash(s) ==
    IF EndsWith(s, "/") THEN SubSeq(s, 1, Len(s) - 1) ELSE s

\* s.replace(/<suffix>$/, '') for a pattern that matches exactly the strings
\* of suffixes at the end of s
StripSuffix(s, suffixes) ==
    IF \E suf \in suffixes : EndsWith(s, suf)
    THEN LET suf == CHOOSE x \in suffixes :
                       /\ EndsWith(s, x)
                       /\ \A y \in suffixes : EndsWith(s, y) => Len(y) <= Len(x)
         IN  SubSeq(s, 1, Len(s) - Len(suf))
    ELSE s

----------------------------------------------------------------------------
(* normalizeDatasetKey, Home.tsx 517-525 *)

normalizeDatasetKey_OneSlash(k) ==
    LET name1 == StripOneTrailingSlash(k)
        name2 == OrElse(SplitPop(name1, "/"), name1)
    IN  OrElse(SplitPop(name2, "__"), name2)

normalizeDatasetKey_NoFallback(k) ==
    LET name1 == StripTrailingSlashes(k)
        name2 == OrElse(SplitPop(name1, "/"), name1)
    IN  SplitPop(name2, "__")

normalizeDatasetKey(k) ==
    LET name1 == StripTrailingSlashes(k)
        name2 == OrElse(SplitPop(name1, "/"), name1)
    IN  OrElse(SplitPop(name2, "__"), name2)

----------------------------------------------------------------------------
(* extractCategory, Home.tsx 530-537 *)

\* the extensions of (jsonl?|csv|parquet)
Extensions == {"json", "jsonl", "csv", "parquet"}
\* the strings /_test\.(jsonl?|csv|parquet)$/ matches
TestSuffixes == {"_test." \o e : e \in Extensions}
\* the strings /\.(jsonl?|csv|parquet)$/ matches
BareSuffixes == {"." \o e : e \in Extensions}

extractCategory_EitherSuffix(f) ==
    LET name == OrElse(SplitPop(f, "/"), f)
    IN  IF \E suf \in TestSuffixes : EndsWith(name, suf)
        THEN StripSuffix(name, TestSuffixes)
        ELSE StripSuffix(name, BareSuffixes)

extractCategory(f) ==
    LET name == OrElse(SplitPop(f, "/"), f)
    IN  StripSuffix(StripSuffix(name, TestSuffixes), BareSuffixes)

----------------------------------------------------------------------------
(* categorizeTest, Home.tsx 542-709: the keywords of each rule group, as the
   source lists them *)

\* Home.tsx 547-549
ComputerScienceKeywords ==
    {"computer", "machine_learning", "security"}

\* Home.tsx 555-560
MathematicsKeywords ==
    {"math", "algebra", "calculus", "geometry", "statistics",
     "trigonometry"}

\* Home.tsx 566-581
MedicineHealthKeywords ==
    {"medicine", "nutrition", "anatomy", "clinical", "virology",
     "genetics", "pharmacology", "veterinary", "dentistry",
     "pharmacy", "optometry", "occupational", "therapy",
     "psychological", "pathology", "medical"}

\* Home.tsx 587-592
ScienceKeywords ==
    {"physics", "chemistry", "biology", "astronomy", "science",
     "medical"}

\* Home.tsx 598-607
LawGovernmentKeywords ==
    {"law", "legal", "jurisprudence", "government", "politics",
     "foreign", "policy", "politic", "national", "protection"}

\* Home.tsx 613-622
HumanitiesPhilosophyKeywords ==
    {"ttqav2", "history", "geography", "philosophy", "logic",
     "logical", "reasoning", "religions", "principles", "moral"}

\* Home.tsx 628-648
BusinessEconomicsKeywords ==
    {"business", "economics", "marketing", "accounting", "management",
     "finance", "financial", "analysis", "auditing", "taxation",
     "insurance", "trade", "real", "estate", "trust", "public",
     "relations", "money", "laundering", "econometrics", "humanities"}

\* Home.tsx 654-660
SocialSciencesKeywords ==
    {"psychology", "sociology", "behavior", "sexuality", "aging",
     "social", "studies"}

\* Home.tsx 665-665
EducationKeywords ==
    {"education", "profession"}

\* Home.tsx 670-673
EngineeringTechnicalKeywords ==
    {"mechanical", "technical", "electrical", "engineering"}

\* Home.tsx 679-684
VocationalArtsKeywords ==
    {"music", "culinary", "physical", "nautical", "agriculture",
     "fire"}

\* Home.tsx 690-694
LanguagesLiteratureKeywords ==
    {"chinese", "language", "literature", "taiwanese", "hokkien"}

\* Home.tsx 700-703
MiscellaneousKeywords ==
    {"miscellaneous", "design", "global", "facts"}

\* String.prototype.toLowerCase on the ASCII letters
UpperCase == "ABCDEFGHIJKLMNOPQRSTUVWXYZ"
LowerCase == "abcdefghijklmnopqrstuvwxyz"

LowerChar(c) ==
    IF \E i \in 1..Len(UpperCase) : SubSeq(UpperCase, i, i) = c
    THEN LET i == CHOOSE j \in 1..Len(UpperCase) : SubSeq(UpperCase, j, j) = c
         IN  SubSeq(LowerCase, i, i)
    ELSE c

RECURSIVE ToLowerCase(_)
ToLowerCase(s) ==
    IF s = "" THEN ""
    ELSE LowerChar(SubSeq(s, 1, 1)) \o ToLowerCase(SubSeq(s, 2, Len(s)))

\* name.includes(k1) || name.includes(k2) || ...
HasAny(name, keywords) == \E k \in keywords : Includes(name, k)

\* the cascade without the toLowerCase of line 543
categorizeTest_NoLowerCase(f) ==
    LET name == f
    IN
        IF HasAny(name, ComputerScienceKeywords) THEN "computerScience"
        ELSE IF HasAny(name, MathematicsKeywords) THEN "mathematics"
        ELSE IF HasAny(name, MedicineHealthKeywords) THEN "medicineHealth"
        ELSE IF HasAny(name, ScienceKeywords) THEN "science"
        ELSE IF HasAny(name, LawGovernmentKeywords) THEN "lawGovernment"
        ELSE IF HasAny(name, HumanitiesPhilosophyKeywords) THEN "humanitiesPhilosophy"
        ELSE IF HasAny(name, BusinessEconomicsKeywords) THEN "businessEconomics"
        ELSE IF HasAny(name, SocialSciencesKeywords) THEN "socialSciences"
        ELSE IF HasAny(name, EducationKeywords) THEN "education"
        ELSE IF HasAny(name, EngineeringTechnicalKeywords) THEN "engineeringTechnical"
        ELSE IF HasAny(name, VocationalArtsKeywords) THEN "vocationalArts"
        ELSE IF HasAny(name, LanguagesLiteratureKeywords) THEN "languagesLiterature"
        ELSE IF HasAny(name, MiscellaneousKeywords) THEN "miscellaneous"
        ELSE "other"

\* the cascade with the science group tested before medicineHealth
categorizeTest_ScienceFirst(f) ==
    LET name == ToLowerCase(f)
    IN
        IF HasAny(name, ComputerScienceKeywords) THEN "computerScience"
        ELSE IF HasAny(name, MathematicsKeywords) THEN "mathematics"
        ELSE IF HasAny(name, ScienceKeywords) THEN "science"
        ELSE IF HasAny(name, MedicineHealthKeywords) THEN "medicineHealth"
        ELSE IF HasAny(name, LawGovernmentKeywords) THEN "lawGovernment"
        ELSE IF HasAny(name, HumanitiesPhilosophyKeywords) THEN "humanitiesPhilosophy"
        ELSE IF HasAny(name, BusinessEconomicsKeywords) THEN "businessEconomics"
        ELSE IF HasAny(name, SocialSciencesKeywords) THEN "socialSciences"
        ELSE IF HasAny(name, EducationKeywords) THEN "education"
        ELSE IF HasAny(name, EngineeringTechnicalKeywords) THEN "engineeringTechnical"
        ELSE IF HasAny(name, VocationalArtsKeywords) THEN "vocationalArts"
        ELSE IF HasAny(name, LanguagesLiteratureKeywords) THEN "languagesLiterature"
        ELSE IF HasAny(name, MiscellaneousKeywords) THEN "miscellaneous"
        ELSE "other"

categorizeTest(f) ==
    LET name == ToLowerCase(f)
    IN
        IF HasAny(name, ComputerScienceKeywords) THEN "computerScience"
        ELSE IF HasAny(name, MathematicsKeywords) THEN "mathematics"
        ELSE IF HasAny(name, MedicineHealthKeywords) THEN "medicineHealth"
        ELSE IF HasAny(name, ScienceKeywords) THEN "science"
        ELSE IF HasAny(name, LawGovernmentKeywords) THEN "lawGovernment"
        ELSE IF HasAny(name, HumanitiesPhilosophyKeywords) THEN "humanitiesPhilosophy"
        ELSE IF HasAny(name, BusinessEconomicsKeywords) THEN "businessEconomics"
        ELSE IF HasAny(name, SocialSciencesKeywords) THEN "socialSciences"
        ELSE IF HasAny(name, EducationKeywords) THEN "education"
        ELSE IF HasAny(name, EngineeringTechnicalKeywords) THEN "engineeringTechnical"
        ELSE IF HasAny(name, VocationalArtsKeywords) THEN "vocationalArts"
        ELSE IF HasAny(name, LanguagesLiteratureKeywords) THEN "languagesLiterature"
        ELSE IF HasAny(name, MiscellaneousKeywords) THEN "miscellaneous"
        ELSE "other"

\* CategoryKey, src/types/index.d.ts 4-18
CategoryKey ==
    {"computerScience", "mathematics", "medicineHealth", "science",
     "lawGovernment", "humanitiesPhilosophy", "businessEconomics",
     "socialSciences", "education", "engineeringTechnical", "vocationalArts",
     "languagesLiterature", "miscellaneous", "other"}

----------------------------------------------------------------------------
(* JSON values as JavaScript sees them.  Every value is a record of the same
   shape; t is its kind, and only the field of that kind is read:
   b of a boolean, n of a number, s of a string, items of an array, and keys
   and items (the own properties, in iteration order) of an object. *)

JValue(t, b, n, str, ks, its) ==
    [t |-> t, b |-> b, n |-> n, s |-> str, keys |-> ks, items |-> its]

Undefined == JValue("undefined", FALSE, 0, "", <<>>, <<>>)
JNull == JValue("null", FALSE, 0, "", <<>>, <<>>)
JBool(b) == JValue("boolean", b, 0, "", <<>>, <<>>)
JNum(n) == JValue("number", FALSE, n, "", <<>>, <<>>)
JStr(str) == JValue("string", FALSE, 0, str, <<>>, <<>>)
JArr(its) == JValue("array", FALSE, 0, "", <<>>, its)
JObj(ks, its) == JValue("object", FALSE, 0, "", ks, its)

\* typeof v
Typeof(v) ==
    IF v.t \in {"null", "array", "object"} THEN "object" ELSE v.t

\* !!v
Truthy(v) ==
    CASE v.t \in {"undefined", "null"} -> FALSE
      [] v.t = "boolean" -> v.b
      [] v.t = "number" -> v.n # 0
      [] v.t = "string" -> v.s # ""
      [] OTHER -> TRUE

\* Array.isArray(v)
IsArray(v) == v.t = "array"

\* whether v.name throws (a TypeError): only on null and undefined
GetThrows(v) == v.t \in {"undefined", "null"}

\* v.name, for the property names the code reads (none of which a string, a
\* number, a boolean or an array has): the own property, else undefined
Get(v, name) ==
    IF v.t = "object" /\ \E i \in 1..Len(v.keys) : v.keys[i] = name
    THEN v.items[CHOOSE i \in 1..Len(v.keys) : v.keys[i] = name]
    ELSE Undefined

RECURSIVE Decimal(_)
\* String(n) of an array index
Decimal(n) ==
    IF n < 10 THEN SubSeq("0123456789", n + 1, n + 1)
    ELSE Decimal(n \div 10) \o Decimal(n % 10)

\* Object.entries(v) of a truthy v: the own enumerable properties, in
\* iteration order (for an object whose keys are no array indices, the order
\* they were parsed in); an array and a string have their indices as keys, a
\* number and a boolean have none
ObjectEntries(v) ==
    CASE v.t = "object" -> [i \in 1..Len(v.keys) |-> <<v.keys[i], v.items[i]>>]
      [] v.t = "array" -> [i \in 1..Len(v.items) |-> <<Decimal(i - 1), v.items[i]>>]
      [] v.t = "string" ->
            [i \in 1..Len(v.s) |-> <<Decimal(i - 1), JStr(SubSeq(v.s, i, i))>>]
      [] OTHER -> <<>>

----------------------------------------------------------------------------
(* flattenDatasetResults, Home.tsx 714-773.  A call either returns a list of
   CategoryResult or throws. *)

Returned(list) == [threw |-> FALSE, value |-> list]
Thrown == [threw |-> TRUE, value |-> <<>>]

\* the legacy dataset of lines 755-760
LegacyDataset == "tw-legal-benchmark-v1"

\* lines 752-767: the record pushed for a well-shaped entry
CategoryResultOf_AnyDataset(normalizedDataset, file, accuracy_mean, accuracy_std) ==
    LET extracted == extractCategory(file)
        cat == IF extracted = "default" THEN "benchmark" ELSE extracted
    IN  [category |-> normalizedDataset \o "/" \o cat,
         file |-> file,
         accuracy_mean |-> accuracy_mean,
         accuracy_std |-> accuracy_std]

CategoryResultOf_NoDataset(normalizedDataset, file, accuracy_mean, accuracy_std) ==
    LET extracted == extractCategory(file)
        cat == IF normalizedDataset = LegacyDataset /\ extracted = "default"
               THEN "benchmark"
               ELSE extracted
    IN  [category |-> cat,
         file |-> file,
         accuracy_mean |-> accuracy_mean,
         accuracy_std |-> accuracy_std]

CategoryResultOf_Clamped(normalizedDataset, file, accuracy_mean, accuracy_std) ==
    LET extracted == extractCategory(file)
        cat == IF normalizedDataset = LegacyDataset /\ extracted = "default"
               THEN "benchmark"
               ELSE extracted
    IN  [category |-> normalizedDataset \o "/" \o cat,
         file |-> file,
         accuracy_mean |-> IF accuracy_mean < 0 THEN 0
                           ELSE IF accuracy_mean > 1 THEN 1 ELSE accuracy_mean,
         accuracy_std |-> accuracy_std]

CategoryResultOf(normalizedDataset, file, accuracy_mean, accuracy_std) ==
    LET extracted == extractCategory(file)
        cat == IF normalizedDataset = LegacyDataset /\ extracted = "default"
               THEN "benchmark"
               ELSE extracted
    IN  [category |-> normalizedDataset \o "/" \o cat,
         file |-> file,
         accuracy_mean |-> accuracy_mean,
         accuracy_std |-> accuracy_std]

RECURSIVE FlattenResults(_, _, _, _)
\* lines 746-769: the loop over one results array, from its i-th entry on;
\* results is the list pushed so far
FlattenResults(normalizedDataset, resultsList, i, results) ==
    IF i > Len(resultsList) THEN Returned(results)
    ELSE LET result == resultsList[i]
         IN  IF GetThrows(result) THEN Thrown
             ELSE LET file == Get(result, "file")
                      accuracy_mean == Get(result, "accuracy_mean")
                      accuracy_std == Get(result, "accuracy_std")
                  IN  IF Typeof(file) = "string" /\ Typeof(accuracy_mean) = "number"
                      THEN FlattenResults(normalizedDataset, resultsList, i + 1,
                               Append(results,
                                      CategoryResultOf(normalizedDataset, file.s,
                                                       accuracy_mean.n, accuracy_std)))
                      ELSE FlattenResults(normalizedDataset, resultsList, i + 1, results)

RECURSIVE FlattenDatasets(_, _, _)
\* lines 730-770: the loop over Object.entries(datasetResults), from its i-th
\* entry on
FlattenDatasets(entries, i, results) ==
    IF i > Len(entries) THEN Returned(results)
    ELSE LET datasetKey == entries[i][1]
             datasetValue == entries[i][2]
             normalizedDataset == normalizeDatasetKey(datasetKey)
         IN  IF Typeof(datasetValue) # "object" \/ datasetValue.t = "null"
             THEN FlattenDatasets(entries, i + 1, results)
             ELSE LET resultsList == Get(datasetValue, "results")
                  IN  IF ~IsArray(resultsList)
                      THEN FlattenDatasets(entries, i + 1, results)
                      ELSE LET inner == FlattenResults(normalizedDataset,
                                                       resultsList.items, 1, results)
                           IN  IF inner.threw THEN Thrown
                               ELSE FlattenDatasets(entries, i + 1, inner.value)

\* the function without the guard of lines 726-728
flattenDatasetResults_NoGuard(raw) ==
    IF Typeof(raw) # "object" \/ raw.t = "null" THEN Returned(<<>>)
    ELSE LET datasetResults == Get(raw, "dataset_results")
         IN  IF GetThrows(datasetResults) THEN Thrown
             ELSE FlattenDatasets(ObjectEntries(datasetResults), 1, <<>>)

flattenDatasetResults(raw) ==
    IF Typeof(raw) # "object" \/ raw.t = "null" THEN Returned(<<>>)
    ELSE LET datasetResults == Get(raw, "dataset_results")
         IN  IF ~Truthy(datasetResults) THEN Returned(<<>>)
             ELSE FlattenDatasets(ObjectEntries(datasetResults), 1, <<>>)

----------------------------------------------------------------------------
(* Specification of normalizeDatasetKey: a key is drawn, normalized, and the
   result normalized again. *)

InitNormalize ==
    /\ key \in StringsOver(KeyAlphabet, MaxKeyLen)
    /\ normalized = ""
    /\ renormalized = ""
    /\ npc = "start"
    /\ ExtractIdle
    /\ CategorizeIdle
    /\ FlattenIdle
    /\ AggregateIdle
    /\ AppIdle

Normalize ==
    /\ npc = "start"
    /\ normalized' = normalizeDatasetKey(key)
    /\ npc' = "once"
    /\ UNCHANGED <<key, renormalized, extrVars, catVars, flatVars, aggVars, appVars>>

NormalizeAgain ==
    /\ npc = "once"
    /\ renormalized' = normalizeDatasetKey(normalized)
    /\ npc' = "twice"
    /\ UNCHANGED <<key, normalized, extrVars, catVars, flatVars, aggVars, appVars>>

NextNormalize == Normalize \/ NormalizeAgain

SpecNormalize == InitNormalize /\ [][NextNormalize]_vars

----------------------------------------------------------------------------
(* Specification of extractCategory *)

InitExtract ==
    /\ filename \in StringsOver(FileFragments, MaxFileParts)
    /\ category = ""
    /\ epc = "start"
    /\ NormalizeIdle
    /\ CategorizeIdle
    /\ FlattenIdle
    /\ AggregateIdle
    /\ AppIdle

Extract ==
    /\ epc = "start"
    /\ category' = extractCategory(filename)
    /\ epc' = "done"
    /\ UNCHANGED <<filename, normVars, catVars, flatVars, aggVars, appVars>>

NextExtract == Extract

SpecExtract == InitExtract /\ [][NextExtract]_vars

----------------------------------------------------------------------------
(* Specification of categorizeTest *)

\* every keyword of every rule group
AllKeywords ==
    UNION {ComputerScienceKeywords,
           MathematicsKeywords,
           MedicineHealthKeywords,
           ScienceKeywords,
           LawGovernmentKeywords,
           HumanitiesPhilosophyKeywords,
           BusinessEconomicsKeywords,
           SocialSciencesKeywords,
           EducationKeywords,
           EngineeringTechnicalKeywords,
           VocationalArtsKeywords,
           LanguagesLiteratureKeywords,
           MiscellaneousKeywords}

\* the pieces test names are put together from: keywords of each group, among
\* them the ones two groups share or that contain another group's keyword,
\* upper-case spellings, a dataset prefix and pieces that are no keyword
TestWords ==
    {"computer", "math", "medical", "medicine", "physics", "science", "law",
     "politic", "logic", "real", "psychology", "psychological", "education",
     "engineering", "physical", "chinese", "facts", "MATH", "Medical_",
     "mmlu/", "x", "_", "physic"}

InitCategorize ==
    /\ testName \in AllKeywords \cup StringsOver(TestWords, MaxWords)
    /\ subject = ""
    /\ cpc = "start"
    /\ NormalizeIdle
    /\ ExtractIdle
    /\ FlattenIdle
    /\ AggregateIdle
    /\ AppIdle

Categorize ==
    /\ cpc = "start"
    /\ subject' = categorizeTest(testName)
    /\ cpc' = "done"
    /\ UNCHANGED <<testName, normVars, extrVars, flatVars, aggVars, appVars>>

NextCategorize == Categorize

SpecCategorize == InitCategorize /\ [][NextCategorize]_vars

----------------------------------------------------------------------------
(* Specification of flattenDatasetResults: a raw document is drawn and
   flattened. *)

\* results entries: two well-shaped ones (a mean above 1 with a std, a mean
\* below 0 without, whose file extracts to "default"), null, an object
\* without file, and an object whose accuracy_mean is a string
GoodEntry ==
    JObj(<<"file", "accuracy_mean", "accuracy_std">>,
         <<JStr("a_test.json"), JNum(2), JNum(1)>>)
DefaultEntry ==
    JObj(<<"accuracy_mean", "file">>, <<JNum(-1), JStr("dir/default.jsonl")>>)
NoFileEntry == JObj(<<"accuracy_mean">>, <<JNum(1)>>)
StringMeanEntry ==
    JObj(<<"file", "accuracy_mean">>, <<JStr("b.csv"), JStr("0.5")>>)
EntryPool == {GoodEntry, DefaultEntry, JNull, NoFileEntry, StringMeanEntry}

\* dataset keys: a bare name, a path with an author prefix that normalizes to
\* the same name, and the legacy dataset under an author prefix
DatasetKeys == {"mmlu", "datasets/cais__mmlu/", "org__tw-legal-benchmark-v1"}

\* dataset values without a results array (a primitive; null, an array, an
\* object without results and objects whose results is a string or an
\* object), and one with the results array l
NoResultsValues == {JNum(1)}
OddDatasetValues ==
    {JNull, JArr(<<>>), JObj(<<>>, <<>>), JObj(<<"results">>, <<JStr("ab")>>),
     JObj(<<"results">>, <<JObj(<<"0">>, <<GoodEntry>>)>>)}
WithResults(l) == JObj(<<"results">>, <<JArr(l)>>)

\* every results array of at most n entries
ResultLists(n) == UNION {[1..k -> EntryPool] : k \in 0..n}

\* dataset values counting at most n results entries
DatasetValues(n) == NoResultsValues \cup {WithResults(l) : l \in ResultLists(n)}

\* the number of results entries of a dataset value
EntryCount(v) ==
    IF IsArray(Get(v, "results")) THEN Len(Get(v, "results").items) ELSE 0

\* a dataset_results object of the <<key, value>> pairs of l
DatasetResultsOf(l) ==
    JObj([i \in 1..Len(l) |-> l[i][1]], [i \in 1..Len(l) |-> l[i][2]])

\* a document with the dataset_results dr, after another property
DocumentOf(dr) == JObj(<<"timestamp", "dataset_results">>, <<JStr("t0"), dr>>)

\* documents that are no object, have no dataset_results, or whose
\* dataset_results is null, a primitive or an array
OddDocuments ==
    {Undefined, JNull, JNum(5), JStr("ab"), JBool(TRUE), JArr(<<>>),
     JArr(<<DocumentOf(DatasetResultsOf(<<>>))>>),
     JObj(<<>>, <<>>), JObj(<<"timestamp">>, <<JStr("t0")>>)}
    \cup {DocumentOf(dr) :
            dr \in {JNull, JNum(0), JNum(7), JStr(""), JStr("ab"),
                    JBool(TRUE), JBool(FALSE)}}
    \cup {DocumentOf(JArr(<<v>>)) : v \in DatasetValues(1) \cup OddDatasetValues}
    \cup {DocumentOf(DatasetResultsOf(<<<<k, v>>, <<"x", WithResults(<<GoodEntry>>)>>>>)) :
            k \in DatasetKeys, v \in OddDatasetValues}

RECURSIVE IsDocumentFrom(_, _, _, _)
\* raw is a document whose dataset_results starts with the pairs of l and goes
\* on with at most d more datasets of distinct keys, counting at most e
\* results entries
IsDocumentFrom(raw, l, d, e) ==
    \/ raw = DocumentOf(DatasetResultsOf(l))
    \/ /\ d > 0
       /\ \E k \in DatasetKeys \ {l[i][1] : i \in 1..Len(l)} :
            \E v \in DatasetValues(e) :
               IsDocumentFrom(raw, Append(l, <<k, v>>), d - 1, e - EntryCount(v))

Init ==
    /\ \/ rawData \in OddDocuments
       \/ IsDocumentFrom(rawData, <<>>, MaxDatasets, MaxEntries)
    /\ flat = Returned(<<>>)
    /\ pc = "start"
    /\ NormalizeIdle
    /\ ExtractIdle
    /\ CategorizeIdle
    /\ AggregateIdle
    /\ AppIdle

Flatten ==
    /\ pc = "start"
    /\ flat' = flattenDatasetResults(rawData)
    /\ pc' = "done"
    /\ UNCHANGED <<rawData, normVars, extrVars, catVars, aggVars, appVars>>

Next == Flatten

Spec == Init /\ [][Next]_vars

----------------------------------------------------------------------------
(* What the claims about flattenDatasetResults speak of: the results entries
   of a document that pass the shape check, each with the dataset key it
   stands under, in the iteration order of the dataset keys and then of each
   results array. *)

\* a value that is an object to typeof and not null (an array is one)
IsObjectValue(v) == Typeof(v) = "object" /\ v.t # "null"

\* an entry with a string file and a numeric accuracy_mean
WellShaped(e) ==
    /\ e.t = "object"
    /\ Get(e, "file").t = "string"
    /\ Get(e, "accuracy_mean").t = "number"

\* a dataset value that is an object with an array results field
HasResultsArray(v) == v.t = "object" /\ Get(v, "results").t = "array"

OriginsIn(datasetKey, v) ==
    IF HasResultsArray(v)
    THEN LET well == SelectSeq(Get(v, "results").items, WellShaped)
         IN  [j \in 1..Len(well) |-> [datasetKey |-> datasetKey, entry |-> well[j]]]
    ELSE <<>>

RECURSIVE OriginsFrom(_, _)
OriginsFrom(entries, i) ==
    IF i > Len(entries) THEN <<>>
    ELSE OriginsIn(entries[i][1], entries[i][2]) \o OriginsFrom(entries, i + 1)

Origins(raw) ==
    IF raw.t = "object"
    THEN OriginsFrom(ObjectEntries(Get(raw, "dataset_results")), 1)
    ELSE <<>>

\* whether some results entry of the document is null
HasNullEntry(raw) ==
    /\ raw.t = "object"
    /\ LET entries == ObjectEntries(Get(raw, "dataset_results"))
       IN  \E i \in 1..Len(entries) :
              /\ HasResultsArray(entries[i][2])
              /\ \E j \in 1..Len(Get(entries[i][2], "results").items) :
                    Get(entries[i][2], "results").items[j] = JNull

(* C1: flattenDatasetResults never throws: for every raw document, results
   entries that are null included, the call returns a list. *)
C1_NeverThrows ==
    pc = "done" => ~flat.threw

\* the calls that throw are exactly those that reach a null results entry
C1_ThrowsOnlyOnNullEntry ==
    pc = "done" => (flat.threw => HasNullEntry(rawData))

(* C2: for every raw document that is not an object (to typeof: null and the
   primitives are not, an array is), or whose dataset_results is absent, null
   or a primitive rather than such an object, flattenDatasetResults returns
   the empty list. *)
C2_EmptyWithoutDatasetResults ==
    (/\ pc = "done"
     /\ \/ ~IsObjectValue(rawData)
        \/ ~IsObjectValue(Get(rawData, "dataset_results")))
        => flat = Returned(<<>>)

\* a document whose dataset_results is a non-empty string, which passes the
\* guard of line 726 and is iterated character by character
C2_Witness ==
    /\ pc = "done"
    /\ rawData.t = "object"
    /\ Get(rawData, "dataset_results") = JStr("ab")
    /\ flat = Returned(<<>>)

(* C3: flattenDatasetResults emits exactly one record for each results entry
   with a string file and a numeric accuracy_mean inside a dataset value that
   is an object with an array results field, and nothing else: ill-shaped
   entries are skipped without dropping the well-shaped ones around them, in
   the iteration order of the dataset keys and then of each results array. *)
C3_OneRecordPerWellShapedEntry ==
    pc = "done" =>
        LET origins == Origins(rawData)
        IN  /\ Len(flat.value) = Len(origins)
            /\ \A i \in 1..Len(origins) :
                  /\ flat.value[i].file = Get(origins[i].entry, "file").s
                  /\ flat.value[i].accuracy_mean =
                        Get(origins[i].entry, "accuracy_mean").n

\* the same, for the documents without a null results entry
C3_WhenNoEntryIsNull ==
    (pc = "done" /\ ~HasNullEntry(rawData)) =>
        LET origins == Origins(rawData)
        IN  /\ ~flat.threw
            /\ Len(flat.value) = Len(origins)
            /\ \A i \in 1..Len(origins) :
                  /\ flat.value[i].file = Get(origins[i].entry, "file").s
                  /\ flat.value[i].accuracy_mean =
                        Get(origins[i].entry, "accuracy_mean").n

\* the category the claims compose of a dataset key and a file
PlainCategory(datasetKey, file) ==
    normalizeDatasetKey(datasetKey) \o "/" \o extractCategory(file)

\* whether the legacy override applies to a dataset key and a file
IsLegacyDefault(datasetKey, file) ==
    /\ normalizeDatasetKey(datasetKey) = "tw-legal-benchmark-v1"
    /\ extractCategory(file) = "default"

\* file, accuracy_mean and accuracy_std of record r are those of entry e
CopiedFrom(r, e) ==
    /\ r.file = Get(e, "file").s
    /\ r.accuracy_mean = Get(e, "accuracy_mean").n
    /\ r.accuracy_std = Get(e, "accuracy_std")

(* C4 as stated: the category of every CategoryResult produced is exactly
   normalizeDatasetKey(datasetKey) + "/" + extractCategory(file) of the entry
   it came from, and file, accuracy_mean and accuracy_std are copied from
   that entry unchanged. *)
C4_AsStated ==
    pc = "done" =>
        LET origins == Origins(rawData)
        IN  \A i \in 1..Len(flat.value) :
               /\ flat.value[i].category =
                     PlainCategory(origins[i].datasetKey,
                                   Get(origins[i].entry, "file").s)
               /\ CopiedFrom(flat.value[i], origins[i].entry)

(* C4 amended: the category of every CategoryResult produced is
   normalizeDatasetKey(datasetKey) + "/" + extractCategory(file) of the entry
   it came from, except that it is "tw-legal-benchmark-v1/benchmark" when the
   key normalizes to "tw-legal-benchmark-v1" and the file extracts to
   "default"; file, accuracy_mean and accuracy_std are copied from that entry
   unchanged (no rounding, no clamping of values outside [0,1]). *)
C4_CategoryAndCopies ==
    pc = "done" =>
        LET origins == Origins(rawData)
        IN  \A i \in 1..Len(flat.value) :
               LET o == origins[i]
                   file == Get(o.entry, "file").s
               IN  /\ flat.value[i].category =
                         IF IsLegacyDefault(o.datasetKey, file)
                         THEN "tw-legal-benchmark-v1/benchmark"
                         ELSE PlainCategory(o.datasetKey, file)
                   /\ CopiedFrom(flat.value[i], o.entry)

\* records with a mean above 1 and a std, and with a mean below 0 and no std
C4_Witness ==
    /\ pc = "done"
    /\ \E i, j \in 1..Len(flat.value) :
          /\ flat.value[i].accuracy_mean > 1
          /\ flat.value[i].accuracy_std = JNum(1)
          /\ flat.value[i].category = "mmlu/a"
          /\ flat.value[j].accuracy_mean < 0
          /\ flat.value[j].accuracy_std = Undefined

(* C5: when a dataset key normalizes to "tw-legal-benchmark-v1" and the
   extracted category is exactly "default", the flattened category is
   "tw-legal-benchmark-v1/benchmark"; under any other dataset, and for any
   other category of that dataset, the category is left as extracted. *)
C5_LegacyOverride ==
    pc = "done" =>
        LET origins == Origins(rawData)
        IN  \A i \in 1..Len(flat.value) :
               LET o == origins[i]
                   file == Get(o.entry, "file").s
               IN  /\ IsLegacyDefault(o.datasetKey, file)
                         => flat.value[i].category = "tw-legal-benchmark-v1/benchmark"
                   /\ ~IsLegacyDefault(o.datasetKey, file)
                         => flat.value[i].category = PlainCategory(o.datasetKey, file)

\* "default" replaced in the legacy dataset, kept in another dataset, and
\* another category of the legacy dataset kept
C5_Witness ==
    /\ pc = "done"
    /\ \E i, j, k \in 1..Len(flat.value) :
          /\ flat.value[i].category = "tw-legal-benchmark-v1/benchmark"
          /\ flat.value[j].category = "mmlu/default"
          /\ flat.value[k].category = "tw-legal-benchmark-v1/a"

----------------------------------------------------------------------------
(* C6: normalizeDatasetKey is idempotent: normalizing the result of a
   normalization returns it unchanged, for every key (keys ending in "/" or
   "__", empty keys and keys with several "__" are among those drawn). *)
C6_Idempotent ==
    npc = "twice" => renormalized = normalized

\* a key ending in "__" after a path, normalized twice
C6_Witness ==
    /\ npc = "twice"
    /\ EndsWith(key, "__")
    /\ Includes(key, "/")
    /\ normalized # key

----------------------------------------------------------------------------
(* What the claims mean by segments and suffixes, stated without the
   operators the functions are computed with. *)

Prefixes(s) == {SubSeq(s, 1, i) : i \in 0..Len(s)}
Suffixes(s) == {SubSeq(s, i, Len(s)) : i \in 1..(Len(s) + 1)}

\* s with every trailing "/" removed: the longest prefix not ending in "/"
TrailingSlashesRemoved(s) ==
    CHOOSE p \in Prefixes(s) :
        /\ ~EndsWith(p, "/")
        /\ \A i \in (Len(p) + 1)..Len(s) : SubSeq(s, i, i) = "/"

\* the last "/"-delimited segment of s: what follows the last "/"
LastSlashSegment(s) ==
    CHOOSE t \in Suffixes(s) :
        /\ ~Includes(t, "/")
        /\ \/ t = s
           \/ SubSeq(s, Len(s) - Len(t), Len(s) - Len(t)) = "/"

\* the last "__"-delimited segment of s, delimiters found left to right
LastDunderSegment(s) == SplitPop(s, "__")

\* name with the one suffix of suffixes it ends in removed, name if none
WithoutSuffix(name, suffixes) ==
    IF \E suf \in suffixes : EndsWith(name, suf)
    THEN CHOOSE p \in Prefixes(name) : \E suf \in suffixes : name = p \o suf
    ELSE name

----------------------------------------------------------------------------
(* C7 as stated: normalizeDatasetKey returns the last "__"-delimited segment
   of the last "/"-delimited segment of the key with its trailing slashes
   removed, and a key with neither "/" nor "__" unchanged. *)
C7_AsStated ==
    npc = "once" =>
        /\ normalized =
             LastDunderSegment(LastSlashSegment(TrailingSlashesRemoved(key)))
        /\ (~Includes(key, "/") /\ ~Includes(key, "__")) => normalized = key

(* C7 amended: as stated, except that when the path segment ends in "__" (its
   last "__"-delimited segment is empty) the whole path segment is returned. *)
C7_LastSegments ==
    npc = "once" =>
        LET segment == LastSlashSegment(TrailingSlashesRemoved(key))
            last    == LastDunderSegment(segment)
        IN  /\ normalized = (IF last = "" THEN segment ELSE last)
            /\ (~Includes(key, "/") /\ ~Includes(key, "__")) => normalized = key

\* a key whose path segment ends in "__": the segment is returned whole
C7_Witness ==
    /\ npc = "once"
    /\ Includes(key, "/")
    /\ EndsWith(TrailingSlashesRemoved(key), "__")
    /\ EndsWith(normalized, "__")
    /\ normalized # key

----------------------------------------------------------------------------
(* C8 as stated: extractCategory keeps only the final "/"-segment of the
   filename and removes exactly one suffix: "_test.<ext>" if present,
   otherwise a bare ".<ext>"; with neither, the final segment unchanged. *)
C8_AsStated ==
    epc = "done" =>
        LET name == LastSlashSegment(filename)
        IN  category =
              IF \E suf \in TestSuffixes : EndsWith(name, suf)
              THEN WithoutSuffix(name, TestSuffixes)
              ELSE WithoutSuffix(name, BareSuffixes)

(* C8 amended: the name is the final "/"-segment of the filename, or the whole
   filename when it ends in "/"; a trailing "_test.<ext>" is removed if
   present, and then a bare trailing ".<ext>" is removed from what is left
   (also when the first pattern matched); with neither suffix the name is
   returned unchanged. *)
C8_SuffixesRemoved ==
    epc = "done" =>
        LET name == IF EndsWith(filename, "/") THEN filename
                    ELSE LastSlashSegment(filename)
        IN  /\ category =
                 WithoutSuffix(WithoutSuffix(name, TestSuffixes), BareSuffixes)
            /\ (/\ \A suf \in TestSuffixes \cup BareSuffixes : ~EndsWith(name, suf))
                   => category = name

\* a filename in a directory whose "_test.<ext>" suffix follows an extension:
\* both are removed
C8_Witness ==
    /\ epc = "done"
    /\ Includes(filename, "/")
    /\ \E suf \in TestSuffixes : \E ext \in BareSuffixes :
          EndsWith(filename, ext \o suf)
    /\ category = "a"

----------------------------------------------------------------------------
(* The rule groups in the order the claims give them, and the keywords of
   each. *)
GroupOrder ==
    <<"computerScience", "mathematics", "medicineHealth", "science",
      "lawGovernment", "humanitiesPhilosophy", "businessEconomics",
      "socialSciences", "education", "engineeringTechnical", "vocationalArts",
      "languagesLiterature", "miscellaneous">>

KeywordsOf(g) ==
    CASE g = "computerScience" -> ComputerScienceKeywords
      [] g = "mathematics" -> MathematicsKeywords
      [] g = "medicineHealth" -> MedicineHealthKeywords
      [] g = "science" -> ScienceKeywords
      [] g = "lawGovernment" -> LawGovernmentKeywords
      [] g = "humanitiesPhilosophy" -> HumanitiesPhilosophyKeywords
      [] g = "businessEconomics" -> BusinessEconomicsKeywords
      [] g = "socialSciences" -> SocialSciencesKeywords
      [] g = "education" -> EducationKeywords
      [] g = "engineeringTechnical" -> EngineeringTechnicalKeywords
      [] g = "vocationalArts" -> VocationalArtsKeywords
      [] g = "languagesLiterature" -> LanguagesLiteratureKeywords
      [] g = "miscellaneous" -> MiscellaneousKeywords

\* the positions in GroupOrder of the groups with a keyword in s
MatchingGroups(s) ==
    {i \in 1..Len(GroupOrder) : \E k \in KeywordsOf(GroupOrder[i]) : Includes(s, k)}

(* C9: categorizeTest returns, for every string, exactly one tag of the closed
   14-value CategoryKey enumeration, and it returns "other" if and only if the
   lower-cased input contains no keyword of any rule group. *)
C9_TotalAndOther ==
    /\ Cardinality(CategoryKey) = 14
    /\ cpc = "done" =>
          /\ subject \in CategoryKey
          /\ subject = "other" <=> MatchingGroups(ToLowerCase(testName)) = {}

\* an upper-case spelling of a keyword is classified, and not as "other"
C9_Witness ==
    /\ cpc = "done"
    /\ testName # ToLowerCase(testName)
    /\ MatchingGroups(testName) = {}
    /\ subject \notin {"other", ""}

\* an input without any keyword yields "other"
C9_WitnessOther ==
    /\ cpc = "done"
    /\ testName # ""
    /\ subject = "other"

(* C10: categorizeTest is first-match-wins over the rule groups in the order
   of GroupOrder: the result is the earliest group with a keyword in the
   lower-cased input; so an input containing "medical" and no computerScience
   or mathematics keyword yields medicineHealth, never science. *)
C10_FirstMatchWins ==
    cpc = "done" =>
        LET name == ToLowerCase(testName)
            hits == MatchingGroups(name)
        IN  /\ hits # {} =>
                  subject = GroupOrder[CHOOSE i \in hits : \A j \in hits : i <= j]
            /\ (/\ Includes(name, "medical")
                /\ ~HasAny(name, ComputerScienceKeywords)
                /\ ~HasAny(name, MathematicsKeywords))
                  => subject = "medicineHealth"

\* an input with keywords of medicineHealth, science and a later group
C10_Witness ==
    /\ cpc = "done"
    /\ Includes(ToLowerCase(testName), "medical")
    /\ Cardinality(MatchingGroups(ToLowerCase(testName))) >= 3
    /\ subject = "medicineHealth"

----------------------------------------------------------------------------
(* groupByCategory (Home.tsx 778-792).  The returned object is the list of
   its buckets in the order their keys were inserted. *)

\* most results handed to groupByCategory
MaxGrouped == 3

\* the position of the bucket keyed k, 0 when grouped has no such key
BucketAt(g, k) ==
    IF \E b \in 1..Len(g) : g[b].key = k
    THEN CHOOSE b \in 1..Len(g) : g[b].key = k
    ELSE 0

RECURSIVE GroupFrom_ByFile(_, _, _)
\* the loop keyed by the subject of the file name instead of the category path
GroupFrom_ByFile(list, i, g) ==
    IF i > Len(list) THEN g
    ELSE LET result == list[i]
             cat == categorizeTest(result.file)
             at == BucketAt(g, cat)
         IN  IF at = 0
             THEN GroupFrom_ByFile(list, i + 1,
                                   Append(g, [key |-> cat, items |-> <<result>>]))
             ELSE GroupFrom_ByFile(list, i + 1,
                                   [g EXCEPT ![at].items = Append(@, result)])

groupByCategory_ByFile(list) == GroupFrom_ByFile(list, 1, <<>>)

RECURSIVE GroupFrom(_, _, _)
\* lines 783-789: the loop over results, from its i-th element on; g is
\* grouped so far
GroupFrom(list, i, g) ==
    IF i > Len(list) THEN g
    ELSE LET result == list[i]
             cat == categorizeTest(result.category)
             at == BucketAt(g, cat)
         IN  IF at = 0
             THEN GroupFrom(list, i + 1,
                            Append(g, [key |-> cat, items |-> <<result>>]))
             ELSE GroupFrom(list, i + 1,
                            [g EXCEPT ![at].items = Append(@, result)])

groupByCategory(list) == GroupFrom(list, 1, <<>>)

\* results to group: two physics results of one dataset that differ in their
\* score, a result of the legacy legal benchmark whose file name alone names
\* no subject, one naming two subjects, and one naming none
GroupPool ==
    {CategoryResultOf("mmlu", "high_school_physics_test.csv", 1, Undefined),
     CategoryResultOf("mmlu", "high_school_physics_test.csv", 2, Undefined),
     CategoryResultOf("tw-legal-benchmark-v1", "a_test.json", 3, Undefined),
     CategoryResultOf("mmlu", "medical_law.json", 2, Undefined),
     CategoryResultOf("mmlu", "a_test.json", 1, Undefined)}

InitGroup ==
    /\ toGroup \in UNION {[1..n -> GroupPool] : n \in 0..MaxGrouped}
    /\ grouped = <<>>
    /\ gpc = "start"
    /\ NormalizeIdle
    /\ ExtractIdle
    /\ CategorizeIdle
    /\ FlattenIdle
    /\ sources = <<>>
    /\ PivotIdle
    /\ RankIdle
    /\ AppIdle

Group ==
    /\ gpc = "start"
    /\ grouped' = groupByCategory(toGroup)
    /\ gpc' = "done"
    /\ UNCHANGED <<toGroup, normVars, extrVars, catVars, flatVars, sources,
                   pivotVars, rankVars, appVars>>

NextGroup == Group

SpecGroup == InitGroup /\ [][NextGroup]_vars

\* the results of list whose category path has the subject k, in list order
WithSubject(list, k) ==
    LET Has(r) == categorizeTest(r.category) = k
    IN  SelectSeq(list, Has)

\* C11: the buckets of groupByCategory partition its input: no two buckets
\* share a key, no bucket is empty, each bucket holds exactly the input results
\* whose full category path categorizeTest maps to the bucket's key, as often
\* as and in the order in which the input has them, and every input result's
\* subject has a bucket.
C11_Partition ==
    gpc = "done" =>
        /\ \A b, c \in 1..Len(grouped) : grouped[b].key = grouped[c].key => b = c
        /\ \A b \in 1..Len(grouped) :
              /\ grouped[b].items # <<>>
              /\ grouped[b].items = WithSubject(toGroup, grouped[b].key)
        /\ \A i \in 1..Len(toGroup) :
              \E b \in 1..Len(grouped) :
                 grouped[b].key = categorizeTest(toGroup[i].category)

\* three results, two of them equal, fall into two buckets, one of them under
\* a subject that only the dataset part of its category path names
C11_Witness ==
    /\ gpc = "done"
    /\ Len(toGroup) = 3
    /\ Len(grouped) = 2
    /\ toGroup[1] = toGroup[3]
    /\ \E i \in 1..Len(toGroup) :
          categorizeTest(toGroup[i].file) # categorizeTest(toGroup[i].category)

----------------------------------------------------------------------------
(* Data sources and the rows of the pivot and ranking tables.  A row is a
   JavaScript object: a function from its property names to values, each a
   string, a boolean or a number.  Numbers are exact fractions num/den, so
   that the quotient of a ranking row's average needs no rounding. *)

RowValue(t, b, s, num, den) == [t |-> t, b |-> b, s |-> s, num |-> num, den |-> den]
RString(s) == RowValue("string", FALSE, s, 0, 1)
RBoolean(b) == RowValue("boolean", b, "", 0, 1)
RNumber(num, den) == RowValue("number", FALSE, "", num, den)

\* obj[name] = value
SetProperty(obj, name, value) ==
    [k \in DOMAIN obj \cup {name} |-> IF k = name THEN value ELSE obj[k]]

\* the fields of DataSource (types/index.d.ts 22-34) that the views read
DataSource(id, meta, raw) ==
    [id |-> id, provider |-> meta.provider, modelName |-> meta.modelName,
     modelId |-> meta.modelId, variance |-> meta.variance,
     openSource |-> meta.openSource, timestamp |-> meta.timestamp,
     isOfficial |-> meta.isOfficial, rawData |-> raw]

----------------------------------------------------------------------------
(* buildPivotTable (Home.tsx 797-817).  categoryMap is the list of its rows
   in insertion order; each row carries its category path under "category". *)

\* the label without the test of variance against "default"
sourceLabel_AlwaysVariance(source) ==
    source.modelName \o " (" \o source.variance \o ")" \o " @ " \o source.timestamp
        \o (IF source.isOfficial THEN " (Official)" ELSE "")

\* lines 802-805
sourceLabel(source) ==
    LET varianceLabel == IF source.variance # "default"
                         THEN " (" \o source.variance \o ")"
                         ELSE ""
    IN  source.modelName \o varianceLabel \o " @ " \o source.timestamp
            \o (IF source.isOfficial THEN " (Official)" ELSE "")

\* categoryMap.get(result.category): the position of the row, 0 for none
RowAt(categoryMap, cat) ==
    IF \E r \in 1..Len(categoryMap) : categoryMap[r].key = cat
    THEN CHOOSE r \in 1..Len(categoryMap) : categoryMap[r].key = cat
    ELSE 0

\* a cell that keeps the value it was first given
SetCell_KeepFirst(row, label, accuracy_mean) ==
    IF label \in DOMAIN row THEN row
    ELSE SetProperty(row, label, RNumber(accuracy_mean, 1))

\* line 813: row[sourceLabel] = result.accuracy_mean
SetCell(row, label, accuracy_mean) ==
    SetProperty(row, label, RNumber(accuracy_mean, 1))

RECURSIVE PivotResults(_, _, _, _)
\* lines 807-814: the loop over one source's results, from the j-th on
PivotResults(resultList, j, label, categoryMap) ==
    IF j > Len(resultList) THEN categoryMap
    ELSE LET result == resultList[j]
             at == RowAt(categoryMap, result.category)
             withRow == IF at = 0
                        THEN Append(categoryMap,
                                    [key |-> result.category,
                                     row |-> [k \in {"category"} |->
                                                  RString(result.category)]])
                        ELSE categoryMap
             r == IF at = 0 THEN Len(withRow) ELSE at
         IN  PivotResults(resultList, j + 1, label,
                 [withRow EXCEPT ![r].row = SetCell(@, label, result.accuracy_mean)])

RECURSIVE PivotSources(_, _, _)
\* lines 800-815: the loop over sources, from the i-th on; a throw of
\* flattenDatasetResults leaves the function
PivotSources(srcs, i, categoryMap) ==
    IF i > Len(srcs) THEN Returned([r \in 1..Len(categoryMap) |-> categoryMap[r].row])
    ELSE LET source == srcs[i]
             flattened == flattenDatasetResults(source.rawData)
         IN  IF flattened.threw THEN Thrown
             ELSE PivotSources(srcs, i + 1,
                      PivotResults(flattened.value, 1, sourceLabel(source),
                                   categoryMap))

\* the table with a zero in every cell no source filled
buildPivotTable_Dense(srcs) ==
    LET built == PivotSources(srcs, 1, <<>>)
        labels == {sourceLabel(srcs[i]) : i \in 1..Len(srcs)}
    IN  IF built.threw THEN built
        ELSE Returned([r \in 1..Len(built.value) |->
                 [k \in DOMAIN built.value[r] \cup labels |->
                     IF k \in DOMAIN built.value[r] THEN built.value[r][k]
                     ELSE RNumber(0, 1)]])

buildPivotTable(srcs) == PivotSources(srcs, 1, <<>>)

----------------------------------------------------------------------------
(* Specification of buildPivotTable: a list of sources is drawn and the table
   built from it. *)

\* most sources handed to a view
MaxSources == 2

\* a results entry with a file and a score
Entry(file, accuracy_mean) ==
    JObj(<<"file", "accuracy_mean">>, <<JStr(file), JNum(accuracy_mean)>>)

\* a document of the datasets l, a list of <<key, results entries>>
DocumentWith(l) ==
    DocumentOf(DatasetResultsOf([i \in 1..Len(l) |-> <<l[i][1], WithResults(l[i][2])>>]))

\* metadata as an upload gives it (Home.tsx 234-246) and as an official
\* benchmark gives it (Home.tsx 141-154)
UploadMeta(rawModelName, timestamp) ==
    [provider |-> "User Upload",
     modelName |-> OrElse(SplitPop(rawModelName, "/"), rawModelName),
     modelId |-> rawModelName, variance |-> "default", openSource |-> FALSE,
     timestamp |-> timestamp, isOfficial |-> FALSE]
OfficialMeta(provider, rawModelName, variance, timestamp) ==
    [provider |-> provider,
     modelName |-> OrElse(SplitPop(rawModelName, "/"), rawModelName),
     modelId |-> rawModelName, variance |-> variance, openSource |-> TRUE,
     timestamp |-> timestamp, isOfficial |-> TRUE]

\* uploads and official benchmarks, among them pairs that differ in model
\* name, variance, timestamp or origin and yet read the same when labelled
PlainUpload == UploadMeta("org/a", "t")
ParenthesisUpload == UploadMeta("a (b)", "t (Official)")
OfficialLookingUpload == UploadMeta("a", "t (Official)")
DefaultOfficial == OfficialMeta("p", "org/a", "default", "t")
VariantOfficial == OfficialMeta("p", "org/a", "b", "t")

\* documents: two tests of one dataset; one category path under two dataset
\* keys; a second dataset first and one file twice; no dataset; a null entry
TwoTests ==
    DocumentWith(<< <<"mmlu", <<Entry("a_test.json", 2), Entry("b.csv", 1)>> >> >>)
TwoKeysOnePath ==
    DocumentWith(<< <<"mmlu", <<Entry("b.csv", 3)>> >>,
                    <<"datasets/cais__mmlu/", <<Entry("b.csv", 2)>> >> >>)
OneFileTwice ==
    DocumentWith(<< <<"arc", <<Entry("c.json", 1)>> >>,
                    <<"mmlu", <<Entry("a_test.json", 3), Entry("a_test.json", 1)>> >> >>)

\* the sources a pivot table is built from
PivotPool ==
    {<<PlainUpload, TwoTests>>, <<PlainUpload, TwoKeysOnePath>>,
     <<PlainUpload, OneFileTwice>>, <<PlainUpload, DocumentWith(<<>>)>>,
     <<ParenthesisUpload, TwoTests>>, <<ParenthesisUpload, TwoKeysOnePath>>,
     <<OfficialLookingUpload, TwoKeysOnePath>>,
     <<DefaultOfficial, TwoTests>>, <<DefaultOfficial, OneFileTwice>>,
     <<DefaultOfficial, DocumentWith(<< <<"mmlu", <<Entry("a_test.json", 1), JNull>> >> >>)>>,
     <<VariantOfficial, TwoTests>>}

\* the id of the i-th source of a list: ids are unique
SourceId(i) == "s" \o Decimal(i)

\* every list of at most n sources, each a pair of metadata and a document
\* from pairs
SourceLists(pairs, n) ==
    {[i \in 1..Len(f) |-> DataSource(SourceId(i), f[i][1], f[i][2])] :
        f \in UNION {[1..k -> pairs] : k \in 0..n}}

InitPivot ==
    /\ sources \in SourceLists(PivotPool, MaxSources)
    /\ pivot = Returned(<<>>)
    /\ ppc = "start"
    /\ NormalizeIdle
    /\ ExtractIdle
    /\ CategorizeIdle
    /\ FlattenIdle
    /\ GroupIdle
    /\ RankIdle
    /\ AppIdle

BuildPivotTable ==
    /\ ppc = "start"
    /\ pivot' = buildPivotTable(sources)
    /\ ppc' = "done"
    /\ UNCHANGED <<sources, normVars, extrVars, catVars, flatVars, groupVars,
                   rankVars, appVars>>

NextPivot == BuildPivotTable

SpecPivot == InitPivot /\ [][NextPivot]_vars

----------------------------------------------------------------------------
(* What the claims about the pivot table speak of: the flattened results of
   the sources, in the order the sources come and, within a source, the order
   flattenDatasetResults returns them. *)

RECURSIVE ContributionsFrom(_)
ContributionsFrom(i) ==
    IF i > Len(sources) THEN <<>>
    ELSE LET flattened == flattenDatasetResults(sources[i].rawData)
         IN  (IF flattened.threw THEN <<>>
              ELSE [j \in 1..Len(flattened.value) |->
                       [source |-> i,
                        label |-> sourceLabel(sources[i]),
                        category |-> flattened.value[j].category,
                        accuracy_mean |-> flattened.value[j].accuracy_mean]])
             \o ContributionsFrom(i + 1)

Contributions == ContributionsFrom(1)

RECURSIVE FirstOccurrences(_)
\* the distinct elements of a list, in the order they first occur
FirstOccurrences(list) ==
    IF list = <<>> THEN <<>>
    ELSE LET before == FirstOccurrences(SubSeq(list, 1, Len(list) - 1))
             last == list[Len(list)]
         IN  IF \E i \in 1..Len(before) : before[i] = last THEN before
             ELSE Append(before, last)

\* the table was built and returned
PivotBuilt == ppc = "done" /\ ~pivot.threw

\* the category paths of the sources' flattened results, in the order in which
\* they first occur, as the category fields of rows
RowsExpected ==
    LET all == Contributions
    IN  FirstOccurrences([c \in 1..Len(all) |-> RString(all[c].category)])

\* C12: the table has exactly one row per distinct category path of the
\* sources' flattened results, the rows in the order in which the paths first
\* occur when the sources are gone through in input order.
C12_RowPerCategory ==
    ppc = "done" =>
        [r \in 1..Len(pivot.value) |-> pivot.value[r]["category"]] = RowsExpected

\* the same of the calls that return: those for which flattenDatasetResults
\* throws for no source
C12_WhenEverySourceFlattens ==
    PivotBuilt =>
        [r \in 1..Len(pivot.value) |-> pivot.value[r]["category"]] = RowsExpected

\* buildPivotTable throws exactly when flattenDatasetResults does for a source
C12_ThrowsWithFlatten ==
    ppc = "done" =>
        (pivot.threw <=> \E i \in 1..Len(sources) :
                            flattenDatasetResults(sources[i].rawData).threw)

\* C13: a cell holds the accuracy_mean of the last result written to it: of
\* the results with the row's category path from sources with the cell's
\* label, the one that comes last, be it from a later source or later in the
\* same source.
C13_LastWriteWins ==
    ppc = "done" =>
        \A all \in {Contributions} :
            \A r \in 1..Len(pivot.value) :
               \A k \in DOMAIN pivot.value[r] \ {"category"} :
                  LET into == {c \in 1..Len(all) :
                                  /\ all[c].label = k
                                  /\ RString(all[c].category) = pivot.value[r]["category"]}
                      last == CHOOSE c \in into : \A d \in into : d <= c
                  IN  /\ into # {}
                      /\ pivot.value[r][k] = RNumber(all[last].accuracy_mean, 1)

\* two sources with one label both score mmlu/a, the first 2 and the second,
\* twice, 3 and then 1: the cell holds 1
C13_Witness ==
    /\ PivotBuilt
    /\ Len(sources) = 2
    /\ sourceLabel(sources[1]) = sourceLabel(sources[2])
    /\ \E r \in 1..Len(pivot.value) :
          /\ pivot.value[r]["category"] = RString("mmlu/a")
          /\ pivot.value[r][sourceLabel(sources[2])] = RNumber(1, 1)
          /\ \E c, d, e \in 1..Len(Contributions) :
                /\ Contributions[c].source = 1 /\ Contributions[c].accuracy_mean = 2
                /\ Contributions[d].source = 2 /\ Contributions[d].accuracy_mean = 3
                /\ Contributions[e].source = 2 /\ Contributions[e].accuracy_mean = 1
                /\ d < e
                /\ \A x \in {c, d, e} : Contributions[x].category = "mmlu/a"

\* C14: every row has the key "category", holding the row's category path, a
\* string, and besides it exactly the labels of the sources that have a result
\* with that path: a source without one has no key in the row.
C14_SparseAndExact ==
    ppc = "done" =>
        \A all \in {Contributions} :
            \A r \in 1..Len(pivot.value) :
               LET row == pivot.value[r]
               IN  /\ "category" \in DOMAIN row
                   /\ row["category"].t = "string"
                   /\ \E c \in 1..Len(all) : all[c].category = row["category"].s
                   /\ DOMAIN row \ {"category"}
                        = {all[c].label : c \in {d \in 1..Len(all) :
                                                   all[d].category = row["category"].s}}

\* two sources with different labels: a row has the key of one and not of the
\* other, another row has both
C14_Witness ==
    /\ PivotBuilt
    /\ Len(sources) = 2
    /\ sourceLabel(sources[1]) # sourceLabel(sources[2])
    /\ \E r, q \in 1..Len(pivot.value) :
          /\ sourceLabel(sources[1]) \in DOMAIN pivot.value[r]
          /\ sourceLabel(sources[2]) \notin DOMAIN pivot.value[r]
          /\ DOMAIN pivot.value[q]
               = {"category", sourceLabel(sources[1]), sourceLabel(sources[2])}

\* what the claim calls the parts of a label
VarianceSuffix(source) ==
    IF source.variance = "default" THEN "" ELSE " (" \o source.variance \o ")"
OfficialSuffix(source) == IF source.isOfficial THEN " (Official)" ELSE ""
LabelFormat(source) ==
    source.modelName \o VarianceSuffix(source) \o " @ " \o source.timestamp
        \o OfficialSuffix(source)

\* in how many of model name, variance suffix, timestamp and isOfficial two
\* sources differ
Differences(a, b) ==
    Cardinality({n \in 1..4 :
        \/ n = 1 /\ a.modelName # b.modelName
        \/ n = 2 /\ VarianceSuffix(a) # VarianceSuffix(b)
        \/ n = 3 /\ a.timestamp # b.timestamp
        \/ n = 4 /\ a.isOfficial # b.isOfficial})

\* every result of every source has its cell under the source's label as the
\* claim spells it
CellsUnderLabelFormat ==
    \A all \in {Contributions} :
    \A c \in 1..Len(all) :
       \E r \in 1..Len(pivot.value) :
          /\ pivot.value[r]["category"] = RString(all[c].category)
          /\ LabelFormat(sources[all[c].source]) \in DOMAIN pivot.value[r]

\* C15 as stated: the cells of a source are keyed by modelName, " (variance)"
\* unless the variance is "default", " @ timestamp" and " (Official)" for an
\* official source, and two sources have the same label exactly when they
\* agree on model name, variance suffix, timestamp and isOfficial.
C15_AsStated ==
    PivotBuilt =>
        /\ CellsUnderLabelFormat
        /\ \A i, j \in 1..Len(sources) :
              LabelFormat(sources[i]) = LabelFormat(sources[j])
                  <=> Differences(sources[i], sources[j]) = 0

\* C15, amended: the label is as stated; sources that agree on the four parts
\* have the same label, and sources with the same label agree on all four or
\* differ in at least two of them.
C15_LabelFormat ==
    PivotBuilt =>
        /\ CellsUnderLabelFormat
        /\ \A i, j \in 1..Len(sources) :
              /\ Differences(sources[i], sources[j]) = 0
                    => LabelFormat(sources[i]) = LabelFormat(sources[j])
              /\ LabelFormat(sources[i]) = LabelFormat(sources[j])
                    => Differences(sources[i], sources[j]) # 1

\* an official source of model a in variance b and an upload of a model named
\* "a (b)" share the one cell of a row
C15_Witness ==
    /\ PivotBuilt
    /\ Len(sources) = 2
    /\ sources[1].modelName = "a" /\ sources[1].variance = "b"
    /\ sources[1].isOfficial
    /\ sources[2].modelName = "a (b)" /\ sources[2].variance = "default"
    /\ ~sources[2].isOfficial
    /\ \E r \in 1..Len(pivot.value) :
          /\ DOMAIN pivot.value[r] = {"category", "a (b) @ t (Official)"}
          /\ \E c, d \in 1..Len(Contributions) :
                /\ Contributions[c].source = 1 /\ Contributions[d].source = 2
                /\ RString(Contributions[c].category) = pivot.value[r]["category"]
                /\ RString(Contributions[d].category) = pivot.value[r]["category"]

----------------------------------------------------------------------------
(* String order.  Array.prototype.sort without a comparator orders strings by
   code unit; localeCompare orders them by the collation of the locale, here
   the root collation on printable ASCII: first by the characters with case
   folded, then lower case before upper case. *)

\* the printable ASCII characters by code unit, from 32 on (all but the
\* grave accent, which a TLA+ string cannot hold)
CodeUnitOrder ==
    " !\"#$%&'()*+,-./0123456789:;<=>?@ABCDEFGHIJKLMNOPQRSTUVWXYZ[\\]^_abcdefghijklmnopqrstuvwxyz{|}~"

\* the same characters, case folded, by primary collation weight
CollationOrder ==
    " _-,;:!?.'\"()[]{}@*/\\&#%^+<=>|~$0123456789abcdefghijklmnopqrstuvwxyz"

\* lower case before upper case
CaseOrder == LowerCase \o UpperCase

\* the place of the character ch in order, 0 for a character not in it
Rank(order, ch) ==
    IF \E i \in 1..Len(order) : SubSeq(order, i, i) = ch
    THEN CHOOSE i \in 1..Len(order) : SubSeq(order, i, i) = ch
    ELSE 0

\* -1, 0 or 1 as a comes before, with or after b, character by character in
\* order, a proper prefix before what it is a prefix of
LexCompare(a, b, order) ==
    LET n == IF Len(a) < Len(b) THEN Len(a) ELSE Len(b)
        differ == {i \in 1..n : SubSeq(a, i, i) # SubSeq(b, i, i)}
    IN  IF differ = {}
        THEN (IF Len(a) < Len(b) THEN -1 ELSE IF Len(a) > Len(b) THEN 1 ELSE 0)
        ELSE LET i == CHOOSE d \in differ : \A e \in differ : d <= e
             IN  IF Rank(order, SubSeq(a, i, i)) < Rank(order, SubSeq(b, i, i))
                 THEN -1 ELSE 1

\* a.localeCompare(b)
LocaleCompare(a, b) ==
    IF a = b THEN 0
    ELSE LET primary == LexCompare(ToLowerCase(a), ToLowerCase(b), CollationOrder)
         IN  IF primary # 0 THEN primary ELSE LexCompare(a, b, CaseOrder)

\* list.sort(compare), given in order[i][j] what compare returns for the i-th
\* and the j-th element: the sort is stable, so an element moves behind those
\* that compare before it and those that compare equal and stood before it
SortedBy(list, order) ==
    LET n == Len(list)
        place == [i \in 1..n |->
                     1 + Cardinality({j \in 1..n :
                             \/ order[j][i] < 0
                             \/ order[j][i] = 0 /\ j < i})]
    IN  [p \in 1..n |-> list[CHOOSE i \in 1..n : place[i] = p]]

RECURSIVE SortedStrings(_)
\* Array.from(set).sort(): the strings of a set by code unit
SortedStrings(set) ==
    IF set = {} THEN <<>>
    ELSE LET first == CHOOSE x \in set :
                         \A y \in set : LexCompare(x, y, CodeUnitOrder) <= 0
         IN  <<first>> \o SortedStrings(set \ {first})

----------------------------------------------------------------------------
(* The ranking table (BenchmarkRankingTable, src/unnamed/part_000). *)

\* category.split('/')[0]
FirstSegment(s) ==
    LET i == IndexOf(s, "/")
    IN  IF i = 0 THEN s ELSE SubSeq(s, 1, i - 1)

\* the name without the fallback to the whole path
extractBenchmarkName_NoFallback(cat) == FirstSegment(cat)

\* lines 61-64
extractBenchmarkName(cat) == OrElse(FirstSegment(cat), cat)

RECURSIVE StripLeadingSlashes(_)
\* name.replace(/^\/+/, '')
StripLeadingSlashes(s) ==
    IF StartsWithAt(s, 1, "/") /\ Len(s) > 0
    THEN StripLeadingSlashes(SubSeq(s, 2, Len(s)))
    ELSE s

\* lines 66-74
extractTestName(cat) ==
    LET i == IndexOf(cat, "/")
    IN  IF i > 0 THEN StripLeadingSlashes(SubSeq(cat, i + 1, Len(cat)))
        ELSE cat

\* the position in a list of records of the one whose field is value, 0 for none
EntryAt(list, field, value) ==
    IF \E e \in 1..Len(list) : list[e][field] = value
    THEN CHOOSE e \in 1..Len(list) : list[e][field] = value
    ELSE 0

\* lines 375-398: one result of a source enters benchmarkMap
AddResult(benchmarkMap, source, result) ==
    LET benchmarkName == extractBenchmarkName(result.category)
        test == extractTestName(result.category)
        withBenchmark ==
            IF EntryAt(benchmarkMap, "benchmarkName", benchmarkName) = 0
            THEN Append(benchmarkMap, [benchmarkName |-> benchmarkName,
                                       testNames |-> {}, modelData |-> <<>>])
            ELSE benchmarkMap
        b == EntryAt(withBenchmark, "benchmarkName", benchmarkName)
        modelKey == source.id
        models == withBenchmark[b].modelData
        withModel ==
            IF EntryAt(models, "modelKey", modelKey) = 0
            THEN Append(models, [modelKey |-> modelKey, source |-> source,
                                 scores |-> [t \in {} |-> 0]])
            ELSE models
        m == EntryAt(withModel, "modelKey", modelKey)
        scores == withModel[m].scores
    IN  [withBenchmark EXCEPT
            ![b].testNames = @ \cup {test},
            ![b].modelData =
                [withModel EXCEPT ![m].scores =
                    [t \in DOMAIN scores \cup {test} |->
                        IF t = test THEN result.accuracy_mean ELSE scores[t]]]]

RECURSIVE AddResults(_, _, _, _)
\* lines 374-399: results.forEach, from the j-th result on
AddResults(benchmarkMap, source, resultList, j) ==
    IF j > Len(resultList) THEN benchmarkMap
    ELSE AddResults(AddResult(benchmarkMap, source, resultList[j]), source,
                    resultList, j + 1)

RECURSIVE CollectSources(_, _, _)
\* lines 372-400: sources.forEach, from the i-th source on; a throw of
\* flattenDatasetResults leaves the computation
CollectSources(srcs, i, benchmarkMap) ==
    IF i > Len(srcs) THEN Returned(benchmarkMap)
    ELSE LET flattened == flattenDatasetResults(srcs[i].rawData)
         IN  IF flattened.threw THEN Thrown
             ELSE CollectSources(srcs, i + 1,
                      AddResults(benchmarkMap, srcs[i], flattened.value, 1))

RECURSIVE ScoreTests(_, _, _, _)
\* lines 426-432: allTests.forEach, from the k-th test on; acc is the row, the
\* total and the count so far
ScoreTests(allTests, scores, k, acc) ==
    IF k > Len(allTests) THEN acc
    ELSE LET test == allTests[k]
         IN  IF test \in DOMAIN scores
             THEN ScoreTests(allTests, scores, k + 1,
                      [row |-> SetProperty(acc.row, test, RNumber(scores[test], 1)),
                       totalScore |-> acc.totalScore + scores[test],
                       count |-> acc.count + 1])
             ELSE ScoreTests(allTests, scores, k + 1, acc)

\* the quotient over the number of tests of the benchmark
Average_OverAllTests(totalScore, count, allTests) ==
    IF Len(allTests) > 0 THEN RNumber(totalScore, Len(allTests)) ELSE RNumber(0, 1)

\* line 434: count > 0 ? totalScore / count : 0
Average(totalScore, count, allTests) ==
    IF count > 0 THEN RNumber(totalScore, count) ELSE RNumber(0, 1)

\* lines 407-436: the row of one model of a benchmark
ModelRow(benchmarkName, allTests, modelEntry) ==
    LET source == modelEntry.source
        scores == modelEntry.scores
        displayName ==
            source.modelName \o (IF source.variance # "default"
                                 THEN " (" \o source.variance \o ")" ELSE "")
        row == [k \in {"key", "provider", "modelName", "modelId", "displayName",
                       "openSource", "isOfficial", "timestamp", "average"} |->
                  CASE k = "key" -> RString(benchmarkName \o "-" \o source.id)
                    [] k = "provider" -> RString(source.provider)
                    [] k = "modelName" -> RString(source.modelName)
                    [] k = "modelId" -> RString(source.modelId)
                    [] k = "displayName" -> RString(displayName)
                    [] k = "openSource" -> RBoolean(source.openSource)
                    [] k = "isOfficial" -> RBoolean(source.isOfficial)
                    [] k = "timestamp" -> RString(source.timestamp)
                    [] k = "average" -> RNumber(0, 1)]
        scored == ScoreTests(allTests, scores, 1,
                             [row |-> row, totalScore |-> 0, count |-> 0])
    IN  SetProperty(scored.row, "average",
                    Average(scored.totalScore, scored.count, allTests))

\* the benchmark with a row for every source, scored or not
BenchmarkOf_EverySource(benchmarkEntry) ==
    LET allTests == SortedStrings(benchmarkEntry.testNames)
        EntryOf(i) ==
            LET m == EntryAt(benchmarkEntry.modelData, "modelKey", sources[i].id)
            IN  IF m = 0
                THEN [modelKey |-> sources[i].id, source |-> sources[i],
                      scores |-> [t \in {} |-> 0]]
                ELSE benchmarkEntry.modelData[m]
    IN  [benchmarkName |-> benchmarkEntry.benchmarkName,
         models |-> [i \in 1..Len(sources) |->
                        ModelRow(benchmarkEntry.benchmarkName, allTests, EntryOf(i))],
         allTests |-> allTests]

\* lines 403-436: the benchmark of one entry of benchmarkMap
BenchmarkOf(benchmarkEntry) ==
    LET allTests == SortedStrings(benchmarkEntry.testNames)
    IN  [benchmarkName |-> benchmarkEntry.benchmarkName,
         models |-> [m \in 1..Len(benchmarkEntry.modelData) |->
                        ModelRow(benchmarkEntry.benchmarkName, allTests,
                                 benchmarkEntry.modelData[m])],
         allTests |-> allTests]

CompareBenchmarks(a, b) == LocaleCompare(a.benchmarkName, b.benchmarkName)

\* the benchmarks left in the order they were met
ComputeBenchmarkData_Unsorted(srcs) ==
    LET collected == CollectSources(srcs, 1, <<>>)
    IN  IF collected.threw THEN Thrown
        ELSE Returned([b \in 1..Len(collected.value) |->
                           BenchmarkOf(collected.value[b])])

\* the ranking aggregation that leaves the benchmarks unsorted on its first
\* call
ComputeBenchmarkData_SortedLater(srcs) ==
    IF finished = <<>> THEN ComputeBenchmarkData_Unsorted(srcs)
    ELSE LET benchmarks == ComputeBenchmarkData_Unsorted(srcs)
         IN  IF benchmarks.threw THEN Thrown
             ELSE Returned(SortedBy(benchmarks.value,
                     [i \in 1..Len(benchmarks.value) |->
                        [j \in 1..Len(benchmarks.value) |->
                            CompareBenchmarks(benchmarks.value[i],
                                              benchmarks.value[j])]]))

\* lines 360-449: the benchmarkData memo
ComputeBenchmarkData(srcs) ==
    LET collected == CollectSources(srcs, 1, <<>>)
    IN  IF collected.threw THEN Thrown
        ELSE LET benchmarks == [b \in 1..Len(collected.value) |->
                                   BenchmarkOf(collected.value[b])]
             IN  Returned(SortedBy(benchmarks,
                     [i \in 1..Len(benchmarks) |-> [j \in 1..Len(benchmarks) |->
                         CompareBenchmarks(benchmarks[i], benchmarks[j])]]))

----------------------------------------------------------------------------
(* Rendering the ranking table (part_000 841-861): each benchmark's rows are
   filtered by the search box and sorted by the selection. *)

RECURSIVE Trim(_)
\* searchQuery.trim(), for the blank
Trim(s) ==
    IF StartsWithAt(s, 1, " ") /\ Len(s) > 0 THEN Trim(SubSeq(s, 2, Len(s)))
    ELSE IF EndsWith(s, " ") /\ Len(s) > 0 THEN Trim(SubSeq(s, 1, Len(s) - 1))
    ELSE s

\* lines 847-850: model.displayName.toLowerCase().includes(query) || ...; the
\* call of toLowerCase on a field that holds no string throws
MatchThrows(model, query) ==
    \/ model["displayName"].t # "string"
    \/ /\ ~Includes(ToLowerCase(model["displayName"].s), query)
       /\ \/ model["provider"].t # "string"
          \/ /\ ~Includes(ToLowerCase(model["provider"].s), query)
             /\ model["modelName"].t # "string"
Matches(model, query) ==
    \/ Includes(ToLowerCase(model["displayName"].s), query)
    \/ Includes(ToLowerCase(model["provider"].s), query)
    \/ Includes(ToLowerCase(model["modelName"].s), query)

\* lines 843-852
FilteredModels(models, query) ==
    IF Trim(query) = "" THEN Returned(models)
    ELSE LET q == ToLowerCase(query)
         IN  IF \E m \in 1..Len(models) :
                   /\ MatchThrows(models[m], q)
                   /\ \A n \in 1..(m - 1) : ~MatchThrows(models[n], q)
             THEN Thrown
             ELSE LET Keep(model) == Matches(model, q)
                  IN  Returned(SelectSeq(models, Keep))

\* String(x) of a score
NumberString(n) == IF n < 0 THEN "-" \o Decimal(0 - n) ELSE Decimal(n)

\* what localeCompare makes of its argument
ArgumentString(v) == IF v.t = "string" THEN v.s ELSE NumberString(v.num)

\* line 857: a.displayName.localeCompare(b.displayName)
CompareDisplayNames(a, b) ==
    LocaleCompare(ArgumentString(a["displayName"]), ArgumentString(b["displayName"]))

\* line 859: b.average - a.average, by its sign
CompareAverages(a, b) ==
    LET difference == b["average"].num * a["average"].den
                        - a["average"].num * b["average"].den
    IN  IF difference < 0 THEN -1 ELSE IF difference > 0 THEN 1 ELSE 0

\* lines 854-861: the ways the sorting can end.  The comparator of line 857
\* throws when the displayName of its first argument is no string; which rows
\* the engine passes first is its own choice, and a list of fewer than two rows
\* is not compared at all.
SortedModels(filtered, by) ==
    LET n == Len(filtered)
        byName == [i \in 1..n |-> [j \in 1..n |->
                      CompareDisplayNames(filtered[i], filtered[j])]]
        byAverage == [i \in 1..n |-> [j \in 1..n |->
                         CompareAverages(filtered[i], filtered[j])]]
    IN  IF by = "modelName"
        THEN LET noString == {m \in 1..n : filtered[m]["displayName"].t # "string"}
             IN  IF n < 2 \/ noString = {}
                 THEN {Returned(SortedBy(filtered, byName))}
                 ELSE IF noString = 1..n THEN {Thrown}
                 ELSE {Thrown, Returned(SortedBy(filtered, byName))}
        ELSE IF by = "average"
        THEN {Returned(SortedBy(filtered, byAverage))}
        ELSE {Returned(filtered)}

\* the ways rendering one benchmark can end
BenchmarkRendered(benchmark, by, query) ==
    LET filtered == FilteredModels(benchmark.models, query)
    IN  IF filtered.threw THEN {Thrown} ELSE SortedModels(filtered.value, by)

\* lines 841-861: benchmarkData.map; a throw for one benchmark ends the render
Rendered(data, by, query) ==
    IF data.threw THEN {Thrown}
    ELSE LET each == [b \in 1..Len(data.value) |->
                         BenchmarkRendered(data.value[b], by, query)]
         IN  (IF \E b \in 1..Len(data.value) : Thrown \in each[b]
              THEN {Thrown} ELSE {})
             \cup
             (IF \A b \in 1..Len(data.value) : \E way \in each[b] : ~way.threw
              THEN {Returned([b \in 1..Len(data.value) |->
                        (CHOOSE way \in each[b] : ~way.threw).value])}
              ELSE {})

----------------------------------------------------------------------------
(* Specification of the ranking table: a list of sources is drawn, the table
   computed and rendered, and then the sort selection and the search box
   changed. *)

\* an official benchmark of one model and an upload of another
OfficialModel == OfficialMeta("p", "org/m2", "v", "t1")
UploadedModel == UploadMeta("m1", "t2")

\* documents: both tests of a benchmark; one of them; a second benchmark met
\* first; tests named like fields of a row; a test named displayName; an empty
\* dataset key and files "/" and "a/b/"; a null entry
BothTests ==
    DocumentWith(<< <<"bench", <<Entry("t1.json", 8), Entry("t2.json", 6)>> >> >>)
OneTest == DocumentWith(<< <<"bench", <<Entry("t1.json", 4)>> >> >>)
TwoBenchmarks ==
    DocumentWith(<< <<"zeta", <<Entry("t1.json", 5)>> >>,
                    <<"bench", <<Entry("t2.json", 9)>> >> >>)
FieldNamedTests ==
    DocumentWith(<< <<"bench", <<Entry("provider.json", 3), Entry("average.json", 1),
                                 Entry("t1.json", 2)>> >> >>)
DisplayNameTest == DocumentWith(<< <<"bench", <<Entry("displayName.json", 2)>> >> >>)
SlashNames ==
    DocumentWith(<< <<"", <<Entry("t1.json", 1)>> >>,
                    <<"bench", <<Entry("/", 2), Entry("a/b/", 3)>> >> >>)
NullEntry == DocumentWith(<< <<"bench", <<Entry("t1.json", 1), JNull>> >> >>)

\* the sources a ranking is computed from
RankSources ==
    {<<OfficialModel, BothTests>>, <<UploadedModel, BothTests>>,
     <<OfficialModel, OneTest>>, <<UploadedModel, OneTest>>,
     <<OfficialModel, TwoBenchmarks>>, <<OfficialModel, FieldNamedTests>>,
     <<OfficialModel, DisplayNameTest>>, <<UploadedModel, DisplayNameTest>>,
     <<UploadedModel, SlashNames>>, <<OfficialModel, DocumentWith(<<>>)>>,
     <<UploadedModel, NullEntry>>}

\* the selections of the sort menu (part_000 826-827)
SortSelections == {"modelName", "average"}

\* what is typed into the search box
SearchQueries == {"", "m1"}

InitRanking ==
    /\ sources \in SourceLists(RankSources, MaxSources)
    /\ benchmarkData = Returned(<<>>)
    /\ sortBy = "average"
    /\ searchQuery = ""
    /\ sortedModels = Returned(<<>>)
    /\ rpc = "start"
    /\ NormalizeIdle
    /\ ExtractIdle
    /\ CategorizeIdle
    /\ FlattenIdle
    /\ GroupIdle
    /\ PivotIdle
    /\ AppIdle

\* the first render
RenderRanking ==
    /\ rpc = "start"
    /\ benchmarkData' = ComputeBenchmarkData(sources)
    /\ sortedModels' \in Rendered(benchmarkData', sortBy, searchQuery)
    /\ rpc' = "done"
    /\ UNCHANGED <<sortBy, searchQuery, sources, normVars, extrVars, catVars,
                   flatVars, groupVars, pivotVars, appVars>>

\* the table is on the screen: no render has thrown
Mounted == rpc = "done" /\ ~benchmarkData.threw /\ ~sortedModels.threw

\* onChange of the sort menu, and the render that follows
SetSortBy ==
    /\ Mounted
    /\ \E by \in SortSelections \ {sortBy} :
          /\ sortBy' = by
          /\ sortedModels' \in Rendered(benchmarkData, by, searchQuery)
    /\ UNCHANGED <<benchmarkData, searchQuery, rpc, sources, normVars, extrVars,
                   catVars, flatVars, groupVars, pivotVars, appVars>>

\* onChange of the search box, and the render that follows
SetSearchQuery ==
    /\ Mounted
    /\ \E query \in SearchQueries \ {searchQuery} :
          /\ searchQuery' = query
          /\ sortedModels' \in Rendered(benchmarkData, sortBy, query)
    /\ UNCHANGED <<benchmarkData, sortBy, rpc, sources, normVars, extrVars,
                   catVars, flatVars, groupVars, pivotVars, appVars>>

NextRanking == RenderRanking \/ SetSortBy \/ SetSearchQuery

SpecRanking == InitRanking /\ [][NextRanking]_vars

----------------------------------------------------------------------------
(* What the claims about the ranking table speak of: for a benchmark name, the
   sources that have a flattened result in its namespace, the tests each has
   there and their scores. *)

\* the table was computed
Ranked == rpc = "done" /\ ~benchmarkData.threw

\* the flattened results of every source, each with the benchmark and test
\* the table files it under
Scored ==
    [i \in 1..Len(sources) |->
        LET flattened == flattenDatasetResults(sources[i].rawData).value
        IN  [j \in 1..Len(flattened) |->
                [benchmark |-> extractBenchmarkName(flattened[j].category),
                 test |-> extractTestName(flattened[j].category),
                 score |-> flattened[j].accuracy_mean]]]

\* of the results all, those of the i-th source in the namespace of a benchmark
ResultsIn(all, i, name) ==
    LET In(r) == r.benchmark = name
    IN  SelectSeq(all[i], In)

\* the tests the i-th source has a score for in a benchmark
TestsOf(all, i, name) ==
    LET of == ResultsIn(all, i, name)
    IN  {of[j].test : j \in 1..Len(of)}

\* its score for a test: that of the last result of the test
ScoreOf(all, i, name, test) ==
    LET of == ResultsIn(all, i, name)
        j == CHOOSE x \in 1..Len(of) :
                /\ of[x].test = test
                /\ \A y \in (x + 1)..Len(of) : of[y].test # test
    IN  of[j].score

RECURSIVE TotalOf(_, _, _, _)
\* the sum of its scores for a set of tests
TotalOf(all, i, name, tests) ==
    IF tests = {} THEN 0
    ELSE LET test == CHOOSE t \in tests : TRUE
         IN  ScoreOf(all, i, name, test) + TotalOf(all, i, name, tests \ {test})

\* the sources with a result in a benchmark, in input order
SourcesIn(all, name) ==
    LET Has(i) == \E j \in 1..Len(all[i]) : all[i][j].benchmark = name
    IN  SelectSeq([i \in 1..Len(sources) |-> i], Has)

\* the names under "fixed fields" in the claims, and the two other fields a
\* row is created with
FixedFields ==
    {"provider", "modelName", "modelId", "displayName", "openSource",
     "isOfficial", "timestamp"}
CreatedFields == FixedFields \cup {"key", "average"}

\* C16: the average of a row is the sum of the scores the row's source has in
\* the benchmark divided by the number of tests it has a score for there, not
\* by the number of tests of the benchmark.
C16_AverageOverPresentTests ==
    Ranked =>
        \A all \in {Scored} :
        \A b \in 1..Len(benchmarkData.value) :
        \A from \in {SourcesIn(all, benchmarkData.value[b].benchmarkName)} :
           LET name == benchmarkData.value[b].benchmarkName
               models == benchmarkData.value[b].models
           IN  \A m \in 1..Len(models) :
                  /\ m <= Len(from)
                  /\ \A tests \in {TestsOf(all, from[m], name)} :
                        LET average == models[m]["average"]
                        IN  /\ average.t = "number"
                            /\ average.den = Cardinality(tests)
                            /\ average.den > 0
                            /\ average.num = TotalOf(all, from[m], name, tests)

\* a benchmark of tests t1 and t2: one source scores 8 and 6 and averages
\* 14/2, the other scores 4 on t1 alone and averages 4/1
C16_Witness ==
    /\ Ranked
    /\ Len(benchmarkData.value) = 1
    /\ benchmarkData.value[1].allTests = <<"t1", "t2">>
    /\ Len(benchmarkData.value[1].models) = 2
    /\ benchmarkData.value[1].models[1]["average"] = RNumber(14, 2)
    /\ benchmarkData.value[1].models[2]["average"] = RNumber(4, 1)
    /\ "t2" \notin DOMAIN benchmarkData.value[1].models[2]

\* C17: a benchmark has a row for a source exactly when the source has a
\* flattened result in its namespace (one row each, in input order), every
\* namespace with a result has a benchmark, and every row has a test.
C17_RowIffResult ==
    Ranked =>
        \A all \in {Scored} :
        /\ \A b \in 1..Len(benchmarkData.value) :
           \A from \in {SourcesIn(all, benchmarkData.value[b].benchmarkName)} :
              LET name == benchmarkData.value[b].benchmarkName
                  models == benchmarkData.value[b].models
              IN  /\ Len(models) = Len(from)
                  /\ Len(models) > 0
                  /\ \A m \in 1..Len(models) :
                        /\ models[m]["key"] = RString(name \o "-" \o sources[from[m]].id)
                        /\ \E t \in TestsOf(all, from[m], name) : t \in DOMAIN models[m]
        /\ \A i \in 1..Len(sources) :
              \A j \in 1..Len(all[i]) :
                 \E b \in 1..Len(benchmarkData.value) :
                    benchmarkData.value[b].benchmarkName = all[i][j].benchmark

\* two sources and two benchmarks: one source is in both, the other in one
\* only and has no row in the second
C17_Witness ==
    /\ Ranked
    /\ Len(sources) = 2
    /\ Len(benchmarkData.value) = 2
    /\ Len(benchmarkData.value[1].models) = 2
    /\ Len(benchmarkData.value[2].models) = 1

\* whether a row holds the source's metadata in its fixed fields
KeepsMetadata(row, source) ==
    /\ row["provider"] = RString(source.provider)
    /\ row["modelName"] = RString(source.modelName)
    /\ row["modelId"] = RString(source.modelId)
    /\ row["displayName"] = RString(source.modelName \o VarianceSuffix(source))
    /\ row["openSource"] = RBoolean(source.openSource)
    /\ row["isOfficial"] = RBoolean(source.isOfficial)
    /\ row["timestamp"] = RString(source.timestamp)

\* C18: every row has the fixed fields with the source's metadata and, for
\* each test the source has a score for, a field named by the test holding the
\* score, and no field for another test; also for a test named like a fixed
\* field.
C18_FixedAndTestFields ==
    Ranked =>
        \A all \in {Scored} :
        \A b \in 1..Len(benchmarkData.value) :
        \A from \in {SourcesIn(all, benchmarkData.value[b].benchmarkName)} :
           LET name == benchmarkData.value[b].benchmarkName
               models == benchmarkData.value[b].models
           IN  \A m \in 1..Len(models) :
               \A tests \in {TestsOf(all, from[m], name)} :
                  /\ KeepsMetadata(models[m], sources[from[m]])
                  /\ \A t \in tests :
                        /\ t \in DOMAIN models[m]
                        /\ models[m][t] = RNumber(ScoreOf(all, from[m], name, t), 1)
                  /\ DOMAIN models[m] \ CreatedFields = tests \ CreatedFields

\* the same for the rows of sources none of whose tests is named like a field
\* a row is created with
C18_WhenNoTestIsNamedLikeAField ==
    Ranked =>
        \A all \in {Scored} :
        \A b \in 1..Len(benchmarkData.value) :
        \A from \in {SourcesIn(all, benchmarkData.value[b].benchmarkName)} :
           LET name == benchmarkData.value[b].benchmarkName
               models == benchmarkData.value[b].models
           IN  \A m \in 1..Len(models) :
               \A tests \in {TestsOf(all, from[m], name)} :
                  tests \cap CreatedFields = {} =>
                      /\ KeepsMetadata(models[m], sources[from[m]])
                      /\ \A t \in tests :
                            models[m][t] = RNumber(ScoreOf(all, from[m], name, t), 1)
                      /\ DOMAIN models[m] = CreatedFields \cup tests

\* the category part the flattener composes into the path of a results entry
\* that stands under a dataset key
CategoryPart(datasetKey, entry) ==
    IF IsLegacyDefault(datasetKey, Get(entry, "file").s) THEN "benchmark"
    ELSE extractCategory(Get(entry, "file").s)

\* the i-th source has a row in the benchmark name, and the benchmark has the
\* test
FiledUnder(i, name, test) ==
    \E b \in 1..Len(benchmarkData.value) :
       /\ benchmarkData.value[b].benchmarkName = name
       /\ \E t \in 1..Len(benchmarkData.value[b].allTests) :
             benchmarkData.value[b].allTests[t] = test
       /\ \E m \in 1..Len(benchmarkData.value[b].models) :
             benchmarkData.value[b].models[m]["key"]
                 = RString(name \o "-" \o sources[i].id)

\* the place of the first "/" of a path that has one
FirstSlash(path) ==
    CHOOSE i \in 1..Len(path) :
       /\ SubSeq(path, i, i) = "/"
       /\ \A j \in 1..(i - 1) : SubSeq(path, j, j) # "/"

\* the benchmark and the test the amended claim names for a category path:
\* the first segment, or the whole path when that is empty, and the remainder
\* less its leading slashes
BenchmarkOfPath(path) ==
    IF FirstSlash(path) = 1 THEN path ELSE SubSeq(path, 1, FirstSlash(path) - 1)
TestOfPath(path) ==
    LET rest == SubSeq(path, FirstSlash(path) + 1, Len(path))
        slashes == {n \in 0..Len(rest) : \A j \in 1..n : SubSeq(rest, j, j) = "/"}
        leading == CHOOSE n \in slashes : \A k \in slashes : k <= n
    IN  SubSeq(rest, leading + 1, Len(rest))

\* C19 as stated: every flattened result is filed under the benchmark named by
\* its normalized dataset name and the test named by its category part, also
\* when the normalized dataset name is empty or the category part contains or
\* starts with "/".
C19_AsStated ==
    Ranked =>
        \A i \in 1..Len(sources) :
        \A origins \in {Origins(sources[i].rawData)} :
           \A o \in 1..Len(origins) :
              FiledUnder(i, normalizeDatasetKey(origins[o].datasetKey),
                         CategoryPart(origins[o].datasetKey, origins[o].entry))

\* C19, amended: every flattened result is filed under the benchmark named by
\* the first "/"-segment of its category path, or by the whole path when that
\* segment is empty, and under the test named by the remainder less its
\* leading slashes; these are the normalized dataset name and the category
\* part whenever the former is not empty and the latter does not start with
\* "/".
C19_SegmentsOfThePath ==
    Ranked =>
        \A i \in 1..Len(sources) :
        \A origins \in {Origins(sources[i].rawData)} :
        \A flattened \in {flattenDatasetResults(sources[i].rawData).value} :
           /\ Len(flattened) = Len(origins)
           /\ \A j \in 1..Len(flattened) :
                 /\ FiledUnder(i, BenchmarkOfPath(flattened[j].category),
                               TestOfPath(flattened[j].category))
                 /\ \A part \in {CategoryPart(origins[j].datasetKey, origins[j].entry)} :
                       (/\ normalizeDatasetKey(origins[j].datasetKey) # ""
                        /\ ~StartsWithAt(part, 1, "/"))
                       => FiledUnder(i, normalizeDatasetKey(origins[j].datasetKey), part)

\* a source with a result under the empty dataset key, one of a file "/" and
\* one of a file "a/b/": the first makes a benchmark named by its whole path
\* "/t1", the second is the test "" of bench, the third its test "a/b/"
C19_Witness ==
    /\ Ranked
    /\ Len(sources) = 1
    /\ Len(benchmarkData.value) = 2
    /\ benchmarkData.value[1].benchmarkName = "/t1"
    /\ benchmarkData.value[1].allTests = <<"t1">>
    /\ benchmarkData.value[2].benchmarkName = "bench"
    /\ benchmarkData.value[2].allTests = <<"", "a/b/">>

\* whether the fraction a is at least the fraction b
AtLeast(a, b) == a.num * b.den >= b.num * a.den

\* C20: the benchmarks of the ranking are in ascending order of their names,
\* in whatever order they were met; the rows shown for a benchmark are in
\* non-increasing order of average when sorted by average, the default, and
\* in ascending order of displayName when sorted by name.  The order of names is
\* that of localeCompare.
C20_Sorted ==
    rpc = "done" =>
        /\ \A b, c \in 1..Len(benchmarkData.value) :
              b < c => LocaleCompare(benchmarkData.value[b].benchmarkName,
                                     benchmarkData.value[c].benchmarkName) < 0
        /\ \A b \in 1..Len(sortedModels.value) :
           \A shown \in {sortedModels.value[b]} :
           \A m, n \in 1..Len(shown) :
              m < n =>
                 /\ sortBy = "average" => AtLeast(shown[m]["average"], shown[n]["average"])
                 /\ sortBy = "modelName" =>
                       LocaleCompare(ArgumentString(shown[m]["displayName"]),
                                     ArgumentString(shown[n]["displayName"])) <= 0

\* two sources, sorted by name: the first met zeta before bench and is named
\* m2 (v), the second is named m1; bench comes first, and in it the second
\* source's row
C20_Witness ==
    /\ Mounted
    /\ sortBy = "modelName"
    /\ searchQuery = ""
    /\ Len(sources) = 2
    /\ Len(benchmarkData.value) = 2
    /\ benchmarkData.value[1].benchmarkName = "bench"
    /\ benchmarkData.value[2].benchmarkName = "zeta"
    /\ Len(benchmarkData.value[2].models) = 1
    /\ benchmarkData.value[2].models[1]["key"] = RString("zeta-s1")
    /\ Len(sortedModels.value[1]) = 2
    /\ sortedModels.value[1][1]["key"] = RString("bench-s2")
    /\ sortedModels.value[1][1]["displayName"] = RString("m1")
    /\ sortedModels.value[1][2]["displayName"] = RString("m2 (v)")
    /\ benchmarkData.value[1].models[1]["key"] = RString("bench-s1")

\* the rows shown for a benchmark are those of its rows that match the search
\* box, each once
C20_ShowsTheMatchingRows ==
    Mounted =>
        /\ Len(sortedModels.value) = Len(benchmarkData.value)
        /\ \A b \in 1..Len(sortedModels.value) :
              \A filtered \in {FilteredModels(benchmarkData.value[b].models, searchQuery)} :
                 /\ ~filtered.threw
                 /\ Len(sortedModels.value[b]) = Len(filtered.value)
                 /\ \A m \in 1..Len(filtered.value) :
                       \E n \in 1..Len(sortedModels.value[b]) :
                          sortedModels.value[b][n] = filtered.value[m]

----------------------------------------------------------------------------
(* Category paths within one flattened output. *)

\* C21 as stated: no two records of one flattenDatasetResults call share the
\* same category.
C21_AsStated ==
    pc = "done" =>
        \A i, j \in 1..Len(flat.value) :
           i # j => flat.value[i].category # flat.value[j].category

\* C21, amended: a call that returns emits one record per well-shaped entry
\* without removing repeated categories: two of its records share a category
\* exactly when their entries stand under dataset keys that normalize to the
\* same name and their files give the same category part.
C21_SharedWhenSameNames ==
    (pc = "done" /\ ~flat.threw) =>
        \A origins \in {Origins(rawData)} :
           /\ Len(flat.value) = Len(origins)
           /\ \A i \in 1..Len(flat.value) :
                 \A name \in {normalizeDatasetKey(origins[i].datasetKey)},
                    part \in {CategoryPart(origins[i].datasetKey, origins[i].entry)} :
                    \A j \in (i + 1)..Len(flat.value) :
                       flat.value[i].category = flat.value[j].category
                          <=> /\ name = normalizeDatasetKey(origins[j].datasetKey)
                              /\ part = CategoryPart(origins[j].datasetKey,
                                                     origins[j].entry)

\* a document that lists the same file twice under mmlu and once under the
\* legacy dataset: two records share their category, the third has another
C21_Witness ==
    /\ pc = "done"
    /\ Len(flat.value) = 3
    /\ \E i, j, k \in 1..3 :
          /\ i < j
          /\ flat.value[i].category = "mmlu/a"
          /\ flat.value[j].category = "mmlu/a"
          /\ flat.value[k].category = "tw-legal-benchmark-v1/a"

----------------------------------------------------------------------------
(* The pipeline run again on the same sources: flattenDatasetResults and
   groupByCategory for each source, buildPivotTable and the ranking table's
   aggregation for the list.  Each call is an action: it reads its argument
   from the state and assigns what the code assigns, which is its own return
   value and nothing else. *)

\* most runs of the pipeline over one list of sources
MaxRuns == 2

\* a run before its first call
NoOutput ==
    [flattened |-> <<>>, grouped |-> <<>>,
     pivot |-> Returned(<<>>), ranking |-> Returned(<<>>)]

\* the sources of a run: an official source and uploads, among them a document
\* that lists one file twice, one with two benchmarks met out of order, and
\* one with a null results entry
PipelinePool ==
    {<<DefaultOfficial, TwoTests>>, <<PlainUpload, OneFileTwice>>,
     <<UploadedModel, TwoBenchmarks>>, <<UploadedModel, NullEntry>>}

InitPipeline ==
    /\ sources \in SourceLists(PipelinePool, MaxSources)
    /\ run = NoOutput
    /\ finished = <<>>
    /\ step = "flatten"
    /\ NormalizeIdle
    /\ ExtractIdle
    /\ CategorizeIdle
    /\ FlattenIdle
    /\ GroupIdle
    /\ PivotIdle
    /\ RankIdle
    /\ SessionIdle
    /\ DashboardIdle

\* a grouping that sorts the list it is given before it groups it
GroupResults_SortingItsInput ==
    /\ step = "group"
    /\ \E sorted \in {[i \in 1..Len(run.flattened) |->
                         IF run.flattened[i].threw THEN Thrown
                         ELSE Returned(SortedBy(run.flattened[i].value,
                                 [a \in 1..Len(run.flattened[i].value) |->
                                    [b \in 1..Len(run.flattened[i].value) |->
                                        LocaleCompare(run.flattened[i].value[a].category,
                                                      run.flattened[i].value[b].category)]]))]} :
          run' = [run EXCEPT !.flattened = sorted,
                             !.grouped = [i \in 1..Len(sorted) |->
                                             groupByCategory(sorted[i].value)]]
    /\ step' = "pivot"
    /\ UNCHANGED <<sources, finished, normVars, extrVars, catVars, flatVars,
                   groupVars, pivotVars, rankVars, sessVars, dashVars>>

\* flattenDatasetResults(source.rawData), for each source
FlattenSources ==
    /\ step = "flatten"
    /\ Len(finished) < MaxRuns
    /\ run' = [run EXCEPT !.flattened =
                  [i \in 1..Len(sources) |-> flattenDatasetResults(sources[i].rawData)]]
    /\ step' = "group"
    /\ UNCHANGED <<sources, finished, normVars, extrVars, catVars, flatVars,
                   groupVars, pivotVars, rankVars, sessVars, dashVars>>

\* groupByCategory(results), for each list that flattening returned
GroupResults ==
    /\ step = "group"
    /\ run' = [run EXCEPT !.grouped =
                  [i \in 1..Len(run.flattened) |->
                      IF run.flattened[i].threw THEN <<>>
                      ELSE groupByCategory(run.flattened[i].value)]]
    /\ step' = "pivot"
    /\ UNCHANGED <<sources, finished, normVars, extrVars, catVars, flatVars,
                   groupVars, pivotVars, rankVars, sessVars, dashVars>>

\* buildPivotTable(sources)
PivotSourcesOfRun ==
    /\ step = "pivot"
    /\ run' = [run EXCEPT !.pivot = buildPivotTable(sources)]
    /\ step' = "rank"
    /\ UNCHANGED <<sources, finished, normVars, extrVars, catVars, flatVars,
                   groupVars, pivotVars, rankVars, sessVars, dashVars>>

\* the benchmarkData memo over sources; the run is finished
RankSourcesOfRun ==
    /\ step = "rank"
    /\ finished' = Append(finished, [run EXCEPT !.ranking = ComputeBenchmarkData(sources)])
    /\ run' = NoOutput
    /\ step' = "flatten"
    /\ UNCHANGED <<sources, normVars, extrVars, catVars, flatVars,
                   groupVars, pivotVars, rankVars, sessVars, dashVars>>

NextPipeline ==
    FlattenSources \/ GroupResults \/ PivotSourcesOfRun \/ RankSourcesOfRun

SpecPipeline == InitPipeline /\ [][NextPipeline]_vars

\* C22: every run of flattenDatasetResults, groupByCategory, buildPivotTable
\* and the ranking aggregation over the same sources returns the same as the
\* first run did: the same elements in the same order, and a call that threw
\* throws again.
C22_Deterministic ==
    \A r \in 1..Len(finished) : finished[r] = finished[1]

\* two runs over two sources, with two records of one category, table rows in
\* first-seen order and two benchmarks that were met in descending order
C22_Witness ==
    /\ Len(finished) = 2
    /\ Len(sources) = 2
    /\ finished[1] = finished[2]
    /\ Len(finished[2].flattened[1].value) = 3
    /\ Len(finished[2].grouped[1]) >= 1
    /\ ~finished[2].pivot.threw
    /\ Len(finished[2].pivot.value) >= 3
    /\ Len(finished[2].ranking.value) = 4
    /\ finished[2].ranking.value[2].benchmarkName = "bench"
    /\ finished[2].ranking.value[4].benchmarkName = "zeta"

\* what the run in progress has returned so far, as the next state holds it
RunNext == IF step = "rank" THEN finished'[Len(finished')] ELSE run'

\* C23: no call changes what it was given.  Every step leaves the source list,
\* the sources and their rawData as they were; grouping leaves the flattened
\* lists and their records as they were; building the table and the ranking
\* leaves the lists and groups returned before as they were; and what earlier
\* runs returned is not touched by a later run, whose results are new.
C23_InputsUnchanged ==
    [][/\ sources' = sources
       /\ step \in {"group", "pivot", "rank"} => RunNext.flattened = run.flattened
       /\ step \in {"pivot", "rank"} => RunNext.grouped = run.grouped
       /\ step = "rank" => RunNext.pivot = run.pivot
       /\ \A r \in 1..Len(finished) : finished'[r] = finished[r]]_vars

\* a second run over two sources has flattened, grouped and built the table:
\* the first source's three records are grouped and stand in three cells
C23_Witness ==
    /\ step = "rank"
    /\ Len(finished) = 1
    /\ Len(sources) = 2
    /\ sources[1].rawData = OneFileTwice
    /\ Len(run.flattened[1].value) = 3
    /\ Len(run.grouped[1]) >= 1
    /\ Len(run.pivot.value) >= 2
    /\ finished[1].pivot = run.pivot

----------------------------------------------------------------------------
(* The session state of Home (Home.tsx 44-274) and the selection handlers of
   ControlsPanel (part_002 44-58).  The state is what React holds between
   events: sources, selectedSourceIds and loading.  An event is an action:
   the resolution of a promise of loadAllLatestResults, of one file of
   handleFilesUpload, or a click.  Each action ends with the render that
   follows it, which recomputes the memos whose dependencies changed.  The
   auto-select effect runs after the render that changed sources, before
   any other event.  discoverResultFiles, fetchResultFile and parseJSONFile
   are collaborators: each call ends in one of the ways its caller
   distinguishes.  The schema calls (deriveSchema, validateData,
   mergeSchemas) advise only and are left out. *)

\* most calls of loadAllLatestResults
MaxLoads == 1
\* most events of the user: uploaded files and changes of the selection
MaxEvents == 2

\* the user's events so far
Events == Len(queue) + Len(processed) + clicks

\* a benchmark of config.official
Benchmark(id, label, modelName, variance, defaultNoneActive) ==
    [id |-> id, label |-> label, provider |-> "p", modelName |-> modelName,
     variance |-> variance, openSource |-> TRUE,
     defaultNoneActive |-> defaultNoneActive]

\* configurations: none; two benchmarks whose labels are in descending
\* order, the second inactive by default; two that were given the same id
Configs ==
    {<<>>,
     <<Benchmark("b1", "Zeta", "org/z", "default", FALSE),
       Benchmark("b2", "Alpha", "org/a", "v", TRUE)>>,
     <<Benchmark("b1", "Alpha", "org/a", "default", FALSE),
       Benchmark("b1", "Beta", "org/a", "v", FALSE)>>}

\* the runs discovery may list first
Runs == {"r1"}

\* config.model.name of a document
Named(doc, name) ==
    JObj(<<"config">> \o doc.keys,
         <<JObj(<<"model">>, <<JObj(<<"name">>, <<name>>)>>)>> \o doc.items)

\* the documents a fetch returns: one with two tests and no model name, and
\* one whose model name is a number
OfficialDocuments == {TwoTests, Named(OneTest, JNum(5))}

\* what files parse to: a document with a model name and one whose model
\* name is a number
ParsedDocuments == {Named(OneTest, JStr("org/m")), Named(OneTest, JNum(5))}

\* how a collaborator's promise ends
Resolved(value) == [threw |-> FALSE, value |-> value]
Rejected == [threw |-> TRUE, value |-> Undefined]

\* v?.name
GetOptional(v, name) == IF GetThrows(v) THEN Undefined ELSE Get(v, name)

\* lines 136-137 and 224-227: dataObj.config?.model?.name || fallback, and
\* the TypeError of reading config of null
RawModelName(data, fallback) ==
    IF GetThrows(data) THEN Rejected
    ELSE LET name == GetOptional(GetOptional(Get(data, "config"), "model"), "name")
         IN  Resolved(IF Truthy(name) THEN name ELSE JStr(fallback))

\* lines 138 and 228: rawModelName.split('/').pop() || rawModelName; only a
\* string has split
ModelName(rawModelName) ==
    IF rawModelName.t # "string" THEN Rejected
    ELSE Resolved(OrElse(SplitPop(rawModelName.s, "/"), rawModelName.s))

\* file.name.replace(/\.(json|jsonl)$/, '')
WithoutResultExtension(name) == StripSuffix(name, {".json", ".jsonl"})

\* line 229: dataObj.timestamp || new Date().toISOString()
UploadTimestamp(data) ==
    LET timestamp == Get(data, "timestamp")
    IN  IF Truthy(timestamp) /\ timestamp.t = "string" THEN timestamp.s ELSE "now"

\* lines 141-154: the source of a benchmark's latest run, or the TypeError
\* that line 157 catches
OfficialSource(benchmark, latestRun, data) ==
    LET rawModelName == RawModelName(data, benchmark.modelName)
        modelName == ModelName(rawModelName.value)
    IN  IF rawModelName.threw \/ modelName.threw THEN Rejected
        ELSE Resolved(
               [id |-> "official-" \o benchmark.id \o "-" \o latestRun,
                label |-> benchmark.label, provider |-> benchmark.provider,
                modelName |-> modelName.value, modelId |-> rawModelName.value.s,
                variance |-> benchmark.variance,
                openSource |-> benchmark.openSource, timestamp |-> latestRun,
                isOfficial |-> TRUE,
                defaultNoneActive |-> benchmark.defaultNoneActive,
                rawData |-> data])

\* lines 231-243: the source of an uploaded file, or the TypeError that line
\* 247 catches; n stands for Date.now() and Math.random(), new at each call
UploadSource(name, n, data) ==
    LET rawModelName == RawModelName(data, WithoutResultExtension(name))
        modelName == ModelName(rawModelName.value)
    IN  IF rawModelName.threw \/ modelName.threw THEN Rejected
        ELSE Resolved(
               [id |-> "upload-" \o Decimal(n),
                label |-> name, provider |-> "User Upload",
                modelName |-> modelName.value, modelId |-> rawModelName.value.s,
                variance |-> "default", openSource |-> FALSE,
                timestamp |-> UploadTimestamp(data), isOfficial |-> FALSE,
                defaultNoneActive |-> FALSE,
                rawData |-> data])

\* array.includes(x)
Has(list, x) == \E i \in 1..Len(list) : list[i] = x

\* sources.filter((s) => selectedSourceIds.includes(s.id))
SelectedOf(srcs, ids) ==
    LET Selected(source) == Has(ids, source.id)
    IN  SelectSeq(srcs, Selected)

\* lines 263-269: the value of the pivotData memo
PivotDataOf(srcs, ids) ==
    IF Len(ids) = 0 THEN Returned(<<>>)
    ELSE buildPivotTable(SelectedOf(srcs, ids))

\* the effect without the test of defaultNoneActive
AutoSelected_All(srcs) == [i \in 1..Len(srcs) |-> srcs[i].id]

\* lines 61-66: the ids the auto-select effect selects
AutoSelected(srcs) ==
    LET Active(source) == ~source.defaultNoneActive
        active == SelectSeq(srcs, Active)
    IN  [i \in 1..Len(active) |-> active[i].id]

\* lines 167-168: the non-null results, sorted by label
ValidSources(results) ==
    LET NotNull(r) == r.state = "source"
        valid == SelectSeq(results, NotNull)
    IN  SortedBy([i \in 1..Len(valid) |-> valid[i].source],
                 [i \in 1..Len(valid) |-> [j \in 1..Len(valid) |->
                     LocaleCompare(valid[i].source.label, valid[j].source.label)]])

\* lines 171-175: the updater of setSources
AddedTo(prev, validSources) ==
    LET Unknown(source) == \A i \in 1..Len(prev) : prev[i].id # source.id
    IN  prev \o SelectSeq(validSources, Unknown)

\* a memo that depends on sources alone
Rerender_SourcesOnly ==
    \E srcs \in {sources'}, ids \in {selectedSourceIds'} :
       /\ pivotData' = IF srcs # sources THEN PivotDataOf(srcs, ids) ELSE pivotData
       /\ selectedSources' = SelectedOf(srcs, ids)

\* lines 263-274: the render after an event recomputes the memos whose
\* dependencies, sources and selectedSourceIds, were set
Rerender ==
    \E srcs \in {sources'}, ids \in {selectedSourceIds'} :
       /\ pivotData' = IF <<srcs, ids>> # <<sources, selectedSourceIds>>
                       THEN PivotDataOf(srcs, ids)
                       ELSE pivotData
       /\ selectedSources' = IF <<srcs, ids>> # <<sources, selectedSourceIds>>
                             THEN SelectedOf(srcs, ids)
                             ELSE selectedSources

\* the promise of a benchmark: pending, or settled with null or with a source
Pending == [state |-> "pending", source |-> Undefined]
SettledNull == [state |-> "null", source |-> Undefined]
SettledWith(source) == [state |-> "source", source |-> source]

\* the name of the k-th file of an upload
FileName(k) == "f" \o Decimal(k) \o (IF k % 2 = 1 THEN ".json" ELSE ".jsonl")

idleVars ==
    <<normVars, extrVars, catVars, flatVars, groupVars, pivotVars, rankVars,
      pipeVars, dashVars>>

InitSession ==
    /\ config \in Configs
    /\ sources = <<>>
    /\ loading = FALSE
    /\ selectedSourceIds = <<>>
    /\ loads = <<>>
    /\ started = 0
    /\ queue = <<>>
    /\ processed = <<>>
    /\ effects = FALSE
    /\ clicks = 0
    /\ pivotData = Returned(<<>>)
    /\ selectedSources = <<>>
    /\ NormalizeIdle
    /\ ExtractIdle
    /\ CategorizeIdle
    /\ FlattenIdle
    /\ GroupIdle
    /\ PivotIdle
    /\ RankIdle
    /\ PipelineIdle
    /\ DashboardIdle

\* lines 61-66: the effect of a render that changed sources
AutoSelect ==
    /\ effects
    /\ selectedSourceIds' = AutoSelected(sources)
    /\ effects' = FALSE
    /\ UNCHANGED <<sources, config, loading, loads, started, queue, processed,
                   clicks, idleVars>>
    /\ Rerender

\* lines 89-97: loadAllLatestResults is called; a promise is created for
\* every benchmark
StartLoad ==
    /\ ~effects
    /\ started < MaxLoads
    /\ started' = started + 1
    /\ loading' = TRUE
    /\ loads' = Append(loads, [b \in 1..Len(config) |-> Pending])
    /\ UNCHANGED <<sources, config, selectedSourceIds, queue, processed,
                   effects, clicks, idleVars>>
    /\ Rerender

\* a promise that rejects when its benchmark fails, which the call awaiting
\* all of them does not outlive
LoadBenchmark_Rejecting ==
    /\ ~effects
    /\ \E l \in 1..Len(loads), b \in 1..Len(config) :
          /\ loads[l][b].state = "pending"
          /\ \E files \in {Rejected, Resolved(<<>>)} \cup {Resolved(<<r>>) : r \in Runs},
                data \in {Rejected} \cup {Resolved(d) : d \in OfficialDocuments} :
                LET newSource ==
                        IF files.threw \/ files.value = <<>> \/ data.threw
                        THEN Rejected
                        ELSE OfficialSource(config[b], files.value[1], data.value)
                IN  loads' = [loads EXCEPT ![l][b] =
                                 IF files.threw \/ data.threw
                                 THEN [state |-> "rejected", source |-> Undefined]
                                 ELSE IF newSource.threw THEN SettledNull
                                 ELSE SettledWith(newSource.value)]
    /\ UNCHANGED <<sources, config, loading, selectedSourceIds, started, queue,
                   processed, effects, clicks, idleVars>>
    /\ Rerender

\* lines 97-162: the promise of a benchmark settles.  discoverResultFiles
\* rejects, lists no file, or lists a latest run; fetchResultFile then
\* rejects or returns the document the source is made of.  Whatever is
\* thrown is caught, and the promise settles with null.
LoadBenchmark ==
    /\ ~effects
    /\ \E l \in 1..Len(loads), b \in 1..Len(config) :
          /\ loads[l][b].state = "pending"
          /\ \E files \in {Rejected, Resolved(<<>>)} \cup {Resolved(<<r>>) : r \in Runs},
                data \in {Rejected} \cup {Resolved(d) : d \in OfficialDocuments} :
                LET newSource ==
                        IF files.threw \/ files.value = <<>> \/ data.threw
                        THEN Rejected
                        ELSE OfficialSource(config[b], files.value[1], data.value)
                IN  loads' = [loads EXCEPT ![l][b] =
                                 IF newSource.threw THEN SettledNull
                                 ELSE SettledWith(newSource.value)]
    /\ UNCHANGED <<sources, config, loading, selectedSourceIds, started, queue,
                   processed, effects, clicks, idleVars>>
    /\ Rerender

\* lines 164-177: every promise of a call has settled; its sources are added
\* and loading is over
CommitLoad ==
    /\ ~effects
    /\ \E l \in 1..Len(loads) :
          /\ \A b \in 1..Len(config) : loads[l][b].state \in {"null", "source"}
          /\ sources' = AddedTo(sources, ValidSources(loads[l]))
          /\ loads' = SubSeq(loads, 1, l - 1) \o SubSeq(loads, l + 1, Len(loads))
    /\ loading' = FALSE
    /\ effects' = TRUE
    /\ UNCHANGED <<config, selectedSourceIds, started, queue, processed, clicks,
                   idleVars>>
    /\ Rerender

\* line 200: handleFilesUpload is called with files
HandleFilesUpload ==
    /\ ~effects
    /\ queue = <<>>
    /\ processed = <<>>
    /\ \E n \in 1..(MaxEvents - Events) : queue' = [k \in 1..n |-> FileName(k)]
    /\ UNCHANGED <<sources, config, loading, selectedSourceIds, loads, started,
                   processed, effects, clicks, idleVars>>
    /\ Rerender

\* lines 201-258: parseJSONFile settles for the next file: it rejects, or
\* returns the document the source is made of; the loop goes on either way
UploadFile ==
    /\ ~effects
    /\ queue # <<>>
    /\ \E data \in {Rejected} \cup {Resolved(d) : d \in ParsedDocuments} :
          LET newSource == IF data.threw THEN Rejected
                           ELSE UploadSource(Head(queue), Len(processed) + 1,
                                             data.value)
          IN  /\ sources' = IF newSource.threw THEN sources
                            ELSE Append(sources, newSource.value)
              /\ effects' = ~newSource.threw
              /\ processed' = Append(processed,
                                     [name |-> Head(queue), parsed |-> data,
                                      added |-> ~newSource.threw])
    /\ queue' = Tail(queue)
    /\ UNCHANGED <<config, loading, selectedSourceIds, loads, started, clicks,
                   idleVars>>
    /\ Rerender

\* part_002 52-58: a checkbox is clicked; it was checked exactly if the id
\* was selected
HandleToggleSource ==
    /\ ~effects
    /\ Events < MaxEvents
    /\ \E i \in 1..Len(sources) :
          LET id == sources[i].id
              checked == ~Has(selectedSourceIds, id)
              Other(sid) == sid # id
          IN  selectedSourceIds' = IF checked THEN Append(selectedSourceIds, id)
                                   ELSE SelectSeq(selectedSourceIds, Other)
    /\ clicks' = clicks + 1
    /\ UNCHANGED <<sources, config, loading, loads, started, queue, processed,
                   effects, idleVars>>
    /\ Rerender

\* part_002 44-46
HandleSelectAll ==
    /\ ~effects
    /\ Events < MaxEvents
    /\ selectedSourceIds' = [i \in 1..Len(sources) |-> sources[i].id]
    /\ clicks' = clicks + 1
    /\ UNCHANGED <<sources, config, loading, loads, started, queue, processed,
                   effects, idleVars>>
    /\ Rerender

\* part_002 48-50
HandleClearAll ==
    /\ ~effects
    /\ Events < MaxEvents
    /\ selectedSourceIds' = <<>>
    /\ clicks' = clicks + 1
    /\ UNCHANGED <<sources, config, loading, loads, started, queue, processed,
                   effects, idleVars>>
    /\ Rerender

NextSession ==
    \/ AutoSelect
    \/ StartLoad
    \/ LoadBenchmark
    \/ CommitLoad
    \/ HandleFilesUpload
    \/ UploadFile
    \/ HandleToggleSource
    \/ HandleSelectAll
    \/ HandleClearAll

SpecSession == InitSession /\ [][NextSession]_vars

\* the step of the auto-select effect, and the step in which a call whose
\* promises have all settled goes on, by what they do to effects and loads
EffectRuns == effects /\ effects' = FALSE
CallResumes ==
    /\ ~effects
    /\ \E l \in 1..Len(loads) :
          /\ \A b \in 1..Len(config) : loads[l][b].state \in {"null", "source"}
          /\ loads' = SubSeq(loads, 1, l - 1) \o SubSeq(loads, l + 1, Len(loads))

\* the event loop runs every continuation that is ready: a settled promise's,
\* the one that awaits them all, and the effect of a render
SpecSessionFair ==
    /\ SpecSession
    /\ WF_vars(LoadBenchmark)
    /\ WF_loads(CallResumes)
    /\ WF_effects(EffectRuns)

----------------------------------------------------------------------------
(* Claims about the session. *)

\* the loaded sources whose id is selected, in the order of the source list
LoadedAndSelected ==
    LET at == {i \in 1..Len(sources) :
                  \E k \in 1..Len(selectedSourceIds) :
                     selectedSourceIds[k] = sources[i].id}
        Nth(n) == CHOOSE i \in at : Cardinality({j \in at : j < i}) = n - 1
    IN  [n \in 1..Cardinality(at) |-> sources[Nth(n)]]

\* C24: in every state of the session, the pivot data handed to export is
\* buildPivotTable of the loaded sources whose id is selected, in source-list
\* order, and the empty list when nothing is selected; the dashboard and the
\* ranking table are given that same list of sources.
C24_ViewsTrackState ==
    /\ pivotData = IF selectedSourceIds = <<>> THEN Returned(<<>>)
                   ELSE buildPivotTable(LoadedAndSelected)
    /\ selectedSources = LoadedAndSelected

\* both official sources are selected, the second of the list first; the
\* table has their two rows, and the views get them in list order
C24_Witness ==
    /\ Len(sources) = 2
    /\ selectedSourceIds = <<sources[2].id, sources[1].id>>
    /\ sources[1].id # sources[2].id
    /\ selectedSources = sources
    /\ ~pivotData.threw
    /\ Len(pivotData.value) = 2
    /\ clicks = 1

\* the ids of the loaded sources not flagged defaultNoneActive, in list order
ActiveIds ==
    LET at == {i \in 1..Len(sources) : ~sources[i].defaultNoneActive}
        Nth(n) == CHOOSE i \in at : Cardinality({j \in at : j < i}) = n - 1
    IN  [n \in 1..Cardinality(at) |-> sources[Nth(n)].id]

\* C26: a commit of an official load and an upload that adds a source are
\* followed, before anything else happens, by the reset of the selection to
\* the ids of the loaded sources not flagged defaultNoneActive, in list order,
\* whatever was selected before; any other change of the selection is a
\* toggle, a select-all or a clear-all of the user.
C26_AutoSelection ==
    [][/\ (sources' # sources \/ Len(loads') < Len(loads)) => effects'
       /\ effects => /\ selectedSourceIds' = ActiveIds
                     /\ sources' = sources
                     /\ ~effects'
       /\ (~effects /\ selectedSourceIds' # selectedSourceIds) => clicks' = clicks + 1]_vars

\* after the load of a benchmark that is inactive by default and one that is
\* not, the user changed the selection, and an upload then reset it
C26_Witness ==
    /\ ~effects
    /\ clicks = 1
    /\ Len(sources) = 3
    /\ sources[1].defaultNoneActive
    /\ ~sources[3].isOfficial
    /\ selectedSourceIds = <<sources[2].id, sources[3].id>>

\* C27: whenever loading is true it is false again later, whatever becomes
\* of each benchmark's promise; and the commit of a call leaves in the list a
\* source for every benchmark whose promise settled with one, the others'
\* failures and empty discoveries notwithstanding.
C27_LoadingCompletes ==
    /\ [](loading => <>~loading)
    /\ [][\A l \in 1..Len(loads) :
             (Len(loads') < Len(loads) /\ loads' = SubSeq(loads, 1, l - 1) \o SubSeq(loads, l + 1, Len(loads)))
                => \A b \in 1..Len(config) :
                      loads[l][b].state = "source" =>
                         \E i \in 1..Len(sources') :
                            sources'[i].id = loads[l][b].source.id]_vars

\* a call over two benchmarks is over: one promise settled with null, the
\* other's source is in the list
C27_Witness ==
    /\ started = 1
    /\ loads = <<>>
    /\ ~loading
    /\ ~effects
    /\ Len(config) = 2
    /\ Len(sources) = 1
    /\ sources[1].isOfficial

\* no two sources of the list share an id
UniqueIds ==
    \A i, j \in 1..Len(sources) : i # j => sources[i].id # sources[j].id

\* a step that commits an official load keeps the list it found as the
\* beginning of the new one, and appends no source whose id the list had
AppendOnly ==
    Len(loads') < Len(loads) =>
        /\ Len(sources') >= Len(sources)
        /\ SubSeq(sources', 1, Len(sources)) = sources
        /\ \A i \in (Len(sources) + 1)..Len(sources') :
              \A j \in 1..Len(sources) : sources'[i].id # sources[j].id

\* C28: the commit of an official load leaves every source loaded before
\* unchanged and in its position and appends a loaded source only if no
\* source of the list has its id, so that no two sources of the list share an
\* id, however loads and uploads interleave.
C28_AppendOnlyAndUnique ==
    [][AppendOnly]_vars /\ []UniqueIds

\* the commit is append-only and adds no id the list had before
C28_AppendOnly == [][AppendOnly]_vars

\* ids are unique when the benchmarks of the configuration have distinct ids
C28_UniqueWhenBenchmarksDiffer ==
    (\A a, b \in 1..Len(config) : a # b => config[a].id # config[b].id)
        => UniqueIds

\* what a step of handleFilesUpload does with the file it takes, which ok
\* tells to have succeeded: it appends one upload of that file to the end of
\* the list or leaves the list as it is, and goes on to the files that remain
FileHandled(ok) ==
    Len(processed') > Len(processed) =>
        LET file == processed'[Len(processed')]
        IN  /\ queue' = Tail(queue)
            /\ file.name = Head(queue)
            /\ IF ok[file]
               THEN /\ Len(sources') = Len(sources) + 1
                    /\ SubSeq(sources', 1, Len(sources)) = sources
                    /\ sources'[Len(sources')].label = file.name
                    /\ ~sources'[Len(sources')].isOfficial
                    /\ sources'[Len(sources')].variance = "default"
               ELSE sources' = sources

\* the files an upload may have handled
Handled ==
    {[name |-> FileName(k), parsed |-> data, added |-> a] :
        k \in 1..(MaxEvents + 1),
        data \in {Rejected} \cup {Resolved(d) : d \in ParsedDocuments},
        a \in BOOLEAN}

\* C29: every file of an upload that parses successfully appends exactly one
\* user-upload source (isOfficial false, variance "default") to the end of
\* the source list, in file order; a file whose parsing fails adds none and
\* leaves the list unchanged; the files after it are processed all the same.
C29_ParsedFilesAreAdded ==
    [][FileHandled([file \in Handled |-> ~file.parsed.threw])]_vars

\* the same of the files that parse to a document whose model name, if it has
\* one, is a string
C29_WhenTheModelNameReads ==
    [][FileHandled([file \in Handled |->
                       /\ ~file.parsed.threw
                       /\ ~UploadSource(file.name, 0, file.parsed.value).threw])]_vars

----------------------------------------------------------------------------
(* The categoryStats memo of CategoryDashboard (src/unnamed/part_001 76-212)
   and getSourceIdentifier (Home.tsx 508-512).  A Map is the list of its
   entries [key, value] in insertion order.  The memo returns the list of the
   categories, or throws with flattenDatasetResults.  overallAvg and variance
   (lines 196-207) are arithmetic over avgPerModel and are left out; a mean
   is kept as the sum and the count it is the quotient of. *)

\* Home.tsx 508-512
getSourceIdentifier(source) ==
    IF source.variance # "default"
    THEN source.modelName \o "-" \o source.variance
    ELSE source.modelName

\* the position of the entry of a Map under key k, 0 when it has none
MapIndex(map, k) ==
    IF \E i \in 1..Len(map) : map[i].key = k
    THEN CHOOSE i \in 1..Len(map) : map[i].key = k
    ELSE 0

\* map.set(k, v): a new key goes last, a known key keeps its place
MapSet(map, k, v) ==
    LET at == MapIndex(map, k)
    IN  IF at = 0 THEN Append(map, [key |-> k, value |-> v])
        ELSE [map EXCEPT ![at].value = v]

\* Math.min(...list) and Math.max(...list) of a non-empty list of numbers
MathMin(list) ==
    CHOOSE m \in {list[i].n : i \in 1..Len(list)} :
        \A i \in 1..Len(list) : m <= list[i].n
MathMax(list) ==
    CHOOSE m \in {list[i].n : i \in 1..Len(list)} :
        \A i \in 1..Len(list) : m >= list[i].n

\* v?.name
Optional(v, name) == IF GetThrows(v) THEN Undefined ELSE Get(v, name)

\* part_001 135-141: dataset.results.find(r => r.file === result.file), the
\* first entry of the array with that file.  No entry is null or undefined
\* here: flattenDatasetResults has thrown for a document that has one.
FindByFile(resultsList, file) ==
    LET found == {k \in 1..Len(resultsList) :
                     Optional(resultsList[k], "file") = JStr(file)}
    IN  IF found = {} THEN Undefined
        ELSE resultsList[CHOOSE k \in found : \A j \in found : k <= j]

\* part_001 143-155: the accuracies of an entry found, when they are a
\* non-empty array; <<>> otherwise
AccuraciesOf(testResult) ==
    LET individualRuns == Optional(testResult, "individual_runs")
        accuracies == IF Truthy(individualRuns)
                      THEN Get(individualRuns, "accuracies")
                      ELSE Undefined
    IN  IF IsArray(accuracies) THEN accuracies.items ELSE <<>>

RECURSIVE IndividualRuns(_, _, _)
\* part_001 127-162: min and max of a result, from the i-th dataset on: those
\* of the first dataset whose first entry with the result's file has
\* accuracies, else accuracy_mean
IndividualRuns(entries, i, result) ==
    IF i > Len(entries)
    THEN [avg |-> result.accuracy_mean, min |-> result.accuracy_mean,
          max |-> result.accuracy_mean]
    ELSE LET dataset == entries[i][2]
             resultsList == Optional(dataset, "results")
         IN  IF IsArray(resultsList)
                /\ AccuraciesOf(FindByFile(resultsList.items, result.file)) # <<>>
             THEN LET accuracies ==
                          AccuraciesOf(FindByFile(resultsList.items, result.file))
                  IN  [avg |-> result.accuracy_mean, min |-> MathMin(accuracies),
                       max |-> MathMax(accuracies)]
             ELSE IndividualRuns(entries, i + 1, result)

\* part_001 85-89 and 132: Object.entries(rawData?.dataset_results || {})
DatasetEntries(raw) ==
    LET datasetResults == Optional(raw, "dataset_results")
    IN  IF Truthy(datasetResults) THEN ObjectEntries(datasetResults) ELSE <<>>

\* the position of the test named testName, 0 when tests has none
TestIndex(tests, name) ==
    IF \E i \in 1..Len(tests) : tests[i].testName = name
    THEN CHOOSE i \in 1..Len(tests) :
            /\ tests[i].testName = name
            /\ \A j \in 1..(i - 1) : tests[j].testName # name
    ELSE 0

RECURSIVE ProcessResults(_, _, _, _, _)
\* part_001 110-169: categoryResults.forEach, from the i-th result on; tests
\* is catData.tests so far
ProcessResults(tests, categoryResults, i, sourceId, entries) ==
    IF i > Len(categoryResults) THEN tests
    ELSE LET result == categoryResults[i]
             name == OrElse(SplitPop(result.category, "/"), result.category)
             datasetName == OrElse(FirstSegment(result.category), "unknown")
             at == TestIndex(tests, name)
             stats == IndividualRuns(entries, 1, result)
         IN  ProcessResults(
                 IF at = 0
                 THEN Append(tests, [testName |-> name, fullPath |-> result.category,
                                     dataset |-> datasetName,
                                     values |-> MapSet(<<>>, sourceId, stats)])
                 ELSE [tests EXCEPT ![at].values = MapSet(@, sourceId, stats)],
                 categoryResults, i + 1, sourceId, entries)

\* part_001 92-105: the category a Map has no entry for yet
NewCategory(categoryName) ==
    [name |-> categoryName, testCount |-> 0, tests |-> <<>>,
     avgPerModel |-> <<>>, minPerModel |-> <<>>, maxPerModel |-> <<>>,
     overallMin |-> 1, overallMax |-> 0]

RECURSIVE ProcessGroups(_, _, _, _, _)
\* part_001 91-170: the loop over Object.entries(grouped), from the i-th
\* bucket on
ProcessGroups(categories, grouping, i, sourceId, entries) ==
    IF i > Len(grouping) THEN categories
    ELSE LET categoryName == grouping[i].key
             known == IF MapIndex(categories, categoryName) = 0
                      THEN MapSet(categories, categoryName, NewCategory(categoryName))
                      ELSE categories
             at == MapIndex(known, categoryName)
         IN  ProcessGroups(
                 [known EXCEPT ![at].value.tests =
                     ProcessResults(@, grouping[i].items, 1, sourceId, entries)],
                 grouping, i + 1, sourceId, entries)

RECURSIVE ProcessSources(_, _, _)
\* part_001 79-171: sources.forEach, from the i-th source on
ProcessSources(categories, srcs, i) ==
    IF i > Len(srcs) THEN Returned(categories)
    ELSE LET source == srcs[i]
             results == flattenDatasetResults(source.rawData)
         IN  IF results.threw THEN Thrown
             ELSE ProcessSources(
                      ProcessGroups(categories, groupByCategory(results.value), 1,
                                    getSourceIdentifier(source),
                                    DatasetEntries(source.rawData)),
                      srcs, i + 1)

RECURSIVE PerModel(_, _, _, _)
\* part_001 177-193: sources.forEach over one category, from the i-th source
\* on: the averages of the source's values over the tests that have one
PerModel(catData, srcs, i, tests) ==
    IF i > Len(srcs) THEN catData
    ELSE LET sourceId == getSourceIdentifier(srcs[i])
             has == {t \in 1..Len(tests) : MapIndex(tests[t].values, sourceId) # 0}
             Avg(t) == tests[t].values[MapIndex(tests[t].values, sourceId)].value.avg
             RECURSIVE SumOf(_)
             SumOf(set) == IF set = {} THEN 0
                           ELSE LET t == CHOOSE x \in set : TRUE
                                IN  Avg(t) + SumOf(set \ {t})
             lowest == CHOOSE t \in has : \A u \in has : Avg(t) <= Avg(u)
             highest == CHOOSE t \in has : \A u \in has : Avg(t) >= Avg(u)
         IN  IF has = {} THEN PerModel(catData, srcs, i + 1, tests)
             ELSE PerModel(
                      [catData EXCEPT
                          !.avgPerModel = MapSet(@, sourceId,
                                                 [sum |-> SumOf(has),
                                                  count |-> Cardinality(has)]),
                          !.minPerModel = MapSet(@, sourceId, Avg(lowest)),
                          !.maxPerModel = MapSet(@, sourceId, Avg(highest))],
                      srcs, i + 1, tests)

\* part_001 174-208: the statistics of one category
Summarized(catData, srcs) ==
    LET perModel == PerModel([catData EXCEPT !.testCount = Len(catData.tests)],
                             srcs, 1, catData.tests)
        mins == perModel.minPerModel
        maxs == perModel.maxPerModel
    IN  IF mins = <<>> THEN perModel
        ELSE [perModel EXCEPT
                 !.overallMin = mins[CHOOSE i \in 1..Len(mins) :
                                        \A j \in 1..Len(mins) :
                                           mins[i].value <= mins[j].value].value,
                 !.overallMax = maxs[CHOOSE i \in 1..Len(maxs) :
                                        \A j \in 1..Len(maxs) :
                                           maxs[i].value >= maxs[j].value].value]

\* part_001 76-212: the memo, Array.from(categories.values())
CategoryStatsOf(srcs) ==
    LET categories == ProcessSources(<<>>, srcs, 1)
    IN  IF categories.threw THEN Thrown
        ELSE Returned([c \in 1..Len(categories.value) |->
                          Summarized(categories.value[c].value, srcs)])

----------------------------------------------------------------------------
(* Specification of the category dashboard: a list of selected sources is
   drawn and the categoryStats memo computed over it. *)

\* a results entry that records the accuracies of its individual runs
EntryWithRuns(file, accuracy_mean, accuracies) ==
    JObj(<<"file", "accuracy_mean", "individual_runs">>,
         <<JStr(file), JNum(accuracy_mean),
           JObj(<<"accuracies">>,
                <<JArr([i \in 1..Len(accuracies) |-> JNum(accuracies[i])])>>)>>)

\* an upload of the model of PlainUpload made later
LaterUpload == UploadMeta("org/a", "t2")

\* documents: a test with its runs and one without; the same test scoring
\* higher; a file listed under two datasets, the first with runs, the second
\* without; runs that are an empty array
RunsRecorded ==
    DocumentWith(<< <<"mmlu", <<EntryWithRuns("a_test.json", 2, <<3, 1>>),
                                Entry("b.csv", 1)>> >> >>)
HigherRuns ==
    DocumentWith(<< <<"mmlu", <<EntryWithRuns("a_test.json", 5, <<4, 6>>)>> >> >>)
FileOfTwoDatasets ==
    DocumentWith(<< <<"arc", <<EntryWithRuns("t.json", 5, <<4, 6>>)>> >>,
                    <<"mmlu", <<Entry("t.json", 2)>> >> >>)
NoRuns ==
    DocumentWith(<< <<"mmlu", <<EntryWithRuns("a_test.json", 3, <<>>)>> >> >>)

\* the sources a dashboard is given
DashboardPool ==
    {<<PlainUpload, RunsRecorded>>, <<LaterUpload, HigherRuns>>,
     <<LaterUpload, RunsRecorded>>, <<VariantOfficial, RunsRecorded>>,
     <<VariantOfficial, NoRuns>>, <<PlainUpload, FileOfTwoDatasets>>,
     <<UploadedModel, TwoTests>>, <<UploadedModel, NullEntry>>}

InitDashboard ==
    /\ sources \in SourceLists(DashboardPool, MaxSources)
    /\ categoryStats = Returned(<<>>)
    /\ dpc = "start"
    /\ NormalizeIdle
    /\ ExtractIdle
    /\ CategorizeIdle
    /\ FlattenIdle
    /\ GroupIdle
    /\ PivotIdle
    /\ RankIdle
    /\ PipelineIdle
    /\ SessionIdle

\* part_001 76-212: the render that computes the memo for sources
ComputeCategoryStats ==
    /\ dpc = "start"
    /\ categoryStats' = CategoryStatsOf(sources)
    /\ dpc' = "done"
    /\ UNCHANGED <<sources, normVars, extrVars, catVars, flatVars, groupVars,
                   pivotVars, rankVars, pipeVars, sessVars>>

NextDashboard == ComputeCategoryStats

SpecDashboard == InitDashboard /\ [][NextDashboard]_vars

RECURSIVE RecordedEntries(_, _)
\* the results entries the records of a flattening came from, in the order of
\* the records, from the i-th dataset on
RecordedEntries(entries, i) ==
    IF i > Len(entries) THEN <<>>
    ELSE LET resultsList == Optional(entries[i][2], "results")
         IN  (IF IsArray(resultsList) THEN SelectSeq(resultsList.items, WellShaped)
              ELSE <<>>) \o RecordedEntries(entries, i + 1)

\* the statistics of a results entry by itself: its mean, and the least and
\* the greatest of its accuracies, or its mean where it has none
OwnStatistics(entry) ==
    LET mean == Get(entry, "accuracy_mean").n
        accuracies == AccuraciesOf(entry)
    IN  IF accuracies = <<>> THEN [avg |-> mean, min |-> mean, max |-> mean]
        ELSE [avg |-> mean, min |-> MathMin(accuracies), max |-> MathMax(accuracies)]

\* the records of the i-th source that belong to the test named name of the
\* category named categoryName, by their position in the flattening
RecordsOf(i, categoryName, name) ==
    LET results == flattenDatasetResults(sources[i].rawData).value
    IN  {k \in 1..Len(results) :
            /\ categorizeTest(results[k].category) = categoryName
            /\ OrElse(SplitPop(results[k].category, "/"), results[k].category) = name}

\* whether no file is named by two results entries of one source
FilesDiffer ==
    \A i \in 1..Len(sources) :
        LET entries == RecordedEntries(DatasetEntries(sources[i].rawData), 1)
        IN  \A j, k \in 1..Len(entries) :
                Get(entries[j], "file") = Get(entries[k], "file") => j = k

\* every value recorded for a test is the statistics of a results entry of
\* its source that a record of that test came from
OwnRunStatistics ==
    (dpc = "done" /\ ~categoryStats.threw) =>
        \A c \in 1..Len(categoryStats.value) :
            \A t \in 1..Len(categoryStats.value[c].tests) :
                LET test == categoryStats.value[c].tests[t]
                IN  \A v \in 1..Len(test.values) :
                        \E i \in 1..Len(sources) :
                            /\ getSourceIdentifier(sources[i]) = test.values[v].key
                            /\ \E k \in RecordsOf(i, categoryStats.value[c].name,
                                                  test.testName) :
                                  test.values[v].value =
                                      OwnStatistics(
                                          RecordedEntries(
                                              DatasetEntries(sources[i].rawData), 1)[k])

\* C25: the min and max recorded with a result are the least and greatest of
\* the individual_runs.accuracies of the results entry the result came from,
\* and its accuracy_mean when that entry has none; no other entry's
\* statistics are recorded with it.
C25_OwnRunStatistics == OwnRunStatistics

\* where no file is named by two results entries of a source, the entry found
\* by its file is the one the result came from
C25_WhenFilesDiffer == FilesDiffer => OwnRunStatistics

\* the sources that have a result for a test of a category
Producers(categoryName, name) ==
    {i \in 1..Len(sources) : RecordsOf(i, categoryName, name) # {}}

\* every test has as many values as there are sources with a result for it,
\* and for each of these sources a value with an accuracy_mean of its own
ValuePerSource ==
    (dpc = "done" /\ ~categoryStats.threw) =>
        \A c \in 1..Len(categoryStats.value) :
            \A t \in 1..Len(categoryStats.value[c].tests) :
                LET test == categoryStats.value[c].tests[t]
                    producers == Producers(categoryStats.value[c].name, test.testName)
                IN  /\ Len(test.values) = Cardinality(producers)
                    /\ \A i \in producers :
                          \E v \in 1..Len(test.values) :
                             /\ test.values[v].key = getSourceIdentifier(sources[i])
                             /\ \E k \in RecordsOf(i, categoryStats.value[c].name,
                                                   test.testName) :
                                   test.values[v].value.avg =
                                       flattenDatasetResults(sources[i].rawData)
                                           .value[k].accuracy_mean

\* C30: every test of a category has one value entry for each selected source
\* that has a result for it, holding that source's own accuracy_mean; sources
\* of one model name and variance are kept apart.
C30_ValuePerSource == ValuePerSource

\* whether the selected sources have identifiers of their own
IdentifiersDiffer ==
    \A i, j \in 1..Len(sources) :
        getSourceIdentifier(sources[i]) = getSourceIdentifier(sources[j]) => i = j

\* sources that differ in model name or variance have values of their own
C30_WhenIdentifiersDiffer == IdentifiersDiffer => ValuePerSource

====
